---------------------------- MODULE Spec2Model ----------------------------
(***************************************************************************)
(* ReadScore (src/src/analyzer.js): the readability engine                 *)
(* ReadScoreAnalyzer and the calls made on it, and the content script that *)
(* analyses a page and highlights the issues on the popup's messages.      *)
(*                                                                         *)
(* JavaScript strings are TLA+ strings (Len, \o and SubSeq act on them     *)
(* character by character).  JavaScript numbers are modelled exactly, as   *)
(* integers or as ratios of integers; a number that the code rounds to one *)
(* decimal is held in tenths.  Doubles are taken as the reals they stand   *)
(* for: Math.round is applied to the exact value.  (Where the exact value  *)
(* lies halfway between two integers the double may fall just below the    *)
(* half, so properties about rounding allow either neighbour.)  Values     *)
(* that are not numbers (NaN, null, a function, a string where a number is *)
(* expected) are tagged records.                                           *)
(***************************************************************************)
EXTENDS Integers, Sequences, FiniteSets, TLC

VARIABLES
    READING_SPEEDS,       \* ReadScoreAnalyzer.READING_SPEEDS
    THRESHOLDS,           \* ReadScoreAnalyzer.THRESHOLDS
    LABELS,               \* ReadScoreAnalyzer.LABELS
    SYLLABLE_OVERRIDES,   \* ReadScoreAnalyzer.SYLLABLE_OVERRIDES (own properties)
    COMMON_POLYSYLLABIC,  \* ReadScoreAnalyzer.COMMON_POLYSYLLABIC
    ABBREVIATIONS,        \* ReadScoreAnalyzer.ABBREVIATIONS
    call,                 \* the most recent call on the engine: name, arguments, outcome
    seen,                 \* per tracked argument pair of analyzeText: the calls made, the outcomes given
    document,             \* the page: its content area and the text elements in it
    isHighlightingEnabled,\* line 673
    analysisResults,      \* line 674
    originalHTML,         \* line 675, the elements that are keys of the map
    highlightOffsets,     \* line 679
    scrolledIntoView,     \* the element scrollIntoView was last called on (0: none)
    batches,              \* the slices highlightBatch took since the offsets were last reset
    inbox                 \* the number of messages the popup has still to send

tables == <<READING_SPEEDS, THRESHOLDS, LABELS, SYLLABLE_OVERRIDES,
            COMMON_POLYSYLLABIC, ABBREVIATIONS>>

page == <<document, isHighlightingEnabled, analysisResults, originalHTML,
          highlightOffsets, scrolledIntoView, batches, inbox>>

vars == <<READING_SPEEDS, THRESHOLDS, LABELS, SYLLABLE_OVERRIDES,
          COMMON_POLYSYLLABIC, ABBREVIATIONS, call, seen, page>>

-----------------------------------------------------------------------------
(* Bounds of the checked inputs.                                           *)

\* word counts given to the classifiers and to calculateReadingTime: 0..MaxWordCount
MaxWordCount == 301
\* grades given to classifyReadability, in tenths: 0..MaxGradeTenths
MaxGradeTenths == 155
\* calculateFleschKincaid: words 0..MaxFKWords, sentences 0..MaxFKSentences,
\* syllables 0..MaxFKSyllablesPerWord * words
MaxFKWords == 24
MaxFKSentences == 6
MaxFKSyllablesPerWord == 3
\* classifySentenceQuality: averages num/den with num in 0..MaxAvgNum, den in 1..MaxAvgDen
MaxAvgNum == 130
MaxAvgDen == 5
\* analyzeText: a short sentence is repeated up to MaxRepeat times, a long one up to
\* MaxLongRepeat times
MaxRepeat == 34
MaxLongRepeat == 6
\* the purity check follows every tracked argument through MaxCalls calls
MaxCalls == 2
\* identifyComplexSentences: sentences of up to MaxClauses clauses and MaxSentenceWords words
MaxClauses == 5
MaxSentenceWords == 25
MaxParagraphWords == 170
MaxParagraphSentences == 5
MaxPageElements == 2
MaxPageMessages == 2
MaxIssueIndex == 2
MaxIssues == 120
MaxBatchMessages == 5
MaxSessionMessages == 3

-----------------------------------------------------------------------------
(* The static tables as the object literal sets them (lines 13-57).        *)

InitREADING_SPEEDS == [EASY |-> 275, MEDIUM |-> 250, HARD |-> 200]

\* COMPLEX_RATIO is held in hundredths (0.08, 0.15)
InitTHRESHOLDS ==
    [SENTENCE_LENGTH   |-> [EASY |-> 14, MEDIUM |-> 22, HARD |-> 25],
     COMPLEX_RATIO     |-> [EASY |-> 8, HARD |-> 15],
     PARAGRAPH_DENSITY |-> [DENSE |-> 100, MIN_SENTENCES |-> 4],
     CLAUSE_DENSITY    |-> [COMPLEX |-> 4]]

InitLABELS ==
    [SENTENCE |->
        [TOO_SHORT |-> [label |-> "Too Short", colorClass |-> "quality-warning"],
         SHORT     |-> [label |-> "Short",     colorClass |-> "quality-good"],
         OPTIMAL   |-> [label |-> "Optimal",   colorClass |-> "quality-optimal"],
         LONG      |-> [label |-> "Long",      colorClass |-> "quality-warning"],
         TOO_LONG  |-> [label |-> "Too Long",  colorClass |-> "quality-bad"]],
     WORD_COUNT |->
        [QUICK  |-> [label |-> "Quick Read", colorClass |-> "length-quick"],
         SHORT  |-> [label |-> "Short",      colorClass |-> "length-short"],
         MEDIUM |-> [label |-> "Medium",     colorClass |-> "length-medium"],
         LONG   |-> [label |-> "Long Read",  colorClass |-> "length-long"],
         DEEP   |-> [label |-> "In-Depth",   colorClass |-> "length-deep"]]]

\* lines 60-70: the own properties
InitSYLLABLE_OVERRIDES ==
    [business |-> 2, every |-> 2, different |-> 2, interest |-> 2,
     evening |-> 2, family |-> 2, several |-> 2, general |-> 2,
     natural |-> 2, actually |-> 3, chocolate |-> 2, favorite |-> 2,
     vegetable |-> 3, comfortable |-> 3, reasonable |-> 3,
     important |-> 3, beautiful |-> 3, possible |-> 3, terrible |-> 3,
     difficult |-> 3, wonderful |-> 3, carefully |-> 3, probably |-> 3,
     especially |-> 4, interesting |-> 4, unfortunately |-> 5]

\* lines 73-83
InitCOMMON_POLYSYLLABIC ==
    {"everyone", "everything", "everywhere", "however", "another",
     "together", "already", "although", "without", "because", "before",
     "between", "during", "often", "sometimes", "usually", "always",
     "really", "actually", "probably", "certainly", "definitely",
     "absolutely", "completely", "exactly", "important", "different",
     "beautiful", "wonderful", "interesting", "government",
     "understand", "information", "technology", "education",
     "community", "experience", "opportunity", "relationship",
     "remember", "something", "anything", "nothing", "somebody"}

\* lines 86-95
InitABBREVIATIONS ==
    {"mr", "mrs", "ms", "dr", "prof", "sr", "jr", "vs", "etc", "inc", "ltd",
     "corp", "eg", "ie", "al", "vol", "no", "pp", "ed", "est",
     "approx", "dept", "govt", "jan", "feb", "mar", "apr", "may",
     "jun", "jul", "aug", "sep", "oct", "nov", "dec", "mon", "tue",
     "wed", "thu", "fri", "sat", "sun", "st", "nd", "rd", "th", "ave",
     "blvd", "ct", "ln", "ft", "lb", "oz", "u", "s", "a", "b", "c",
     "d", "e", "f", "g", "h", "i", "j", "k", "l", "m", "n", "o", "p",
     "q", "r", "t", "v", "w", "x", "y", "z", "ph", "ba", "ma", "bs",
     "mba", "ceo", "cto", "cfo"}

-----------------------------------------------------------------------------
(* JavaScript values.                                                      *)

\* a number with one decimal, in tenths
Number(t) == [kind |-> "number", tenths |-> t]
NaN == [kind |-> "NaN", tenths |-> 0]
null == [kind |-> "null", tenths |-> 0]

\* a non-negative ratio num/den (den > 0)
Ratio(n, d) == [num |-> n, den |-> d]

\* Math.round(x * 10) for x = n/d >= 0, d > 0: the nearest integer, a half going up
RoundTenths(n, d) == (20 * n + d) \div (2 * d)

\* Math.max(a, b) on integers
Max(a, b) == IF a >= b THEN a ELSE b

\* Math.min(a, b) on integers
Min(a, b) == IF a <= b THEN a ELSE b

\* String.prototype.toUpperCase on the level names calculateReadingTime is given
UpperAlphabet == "ABCDEFGHIJKLMNOPQRSTUVWXYZ"
LowerAlphabet == "abcdefghijklmnopqrstuvwxyz"

\* s[i] of a string, "" outside it
CharAt(s, i) == IF i >= 1 /\ i <= Len(s) THEN SubSeq(s, i, i) ELSE ""

CharSet(s) == {SubSeq(s, i, i) : i \in 1..Len(s)}

Upper == CharSet(UpperAlphabet)
Lower == CharSet(LowerAlphabet)

ToLowerChar(c) ==
    IF c \in Upper
    THEN CharAt(LowerAlphabet, CHOOSE i \in 1..26 : CharAt(UpperAlphabet, i) = c)
    ELSE c

ToUpperChar(c) ==
    IF c \in Lower
    THEN CharAt(UpperAlphabet, CHOOSE i \in 1..26 : CharAt(LowerAlphabet, i) = c)
    ELSE c

\* the concatenation of f[lo], ..., f[hi], by halves
(* A value that the code computes once and then reads (a const, an        *)
(* argument): Body is given the value itself.                              *)
Bind(value, Body(_)) == CHOOSE result \in {Body(v) : v \in {value}} : TRUE

RECURSIVE Concat(_, _, _)
Concat(f, lo, hi) ==
    IF lo > hi THEN ""
    ELSE IF lo = hi THEN f[lo]
    ELSE LET mid == (lo + hi) \div 2
         IN  Concat(f, lo, mid) \o Concat(f, mid + 1, hi)

toUpperCase(s) ==
    Bind(s, LAMBDA str : Concat([i \in 1..Len(str) |-> ToUpperChar(CharAt(str, i))], 1, Len(str)))

toLowerCase(s) ==
    Bind(s, LAMBDA str : Concat([i \in 1..Len(str) |-> ToLowerChar(CharAt(str, i))], 1, Len(str)))

-----------------------------------------------------------------------------
(* calculateFleschKincaid (lines 313-323).  totalSyllables is a number     *)
(* [kind |-> "number", v |-> n] or, when the reduce of analyzeText has     *)
(* turned into a string concatenation, [kind |-> "string"]: dividing such  *)
(* a string gives NaN, and Math.round and Math.max keep NaN.               *)
(* With W words, S sentences, Y syllables the grade times ten is           *)
(*   (39 W W + 1180 Y S - 1559 S W) / (10 S W).                            *)

FKNumerator(W, S, Y) == 39 * W * W + 1180 * Y * S - 1559 * S * W

FKDenominator(W, S) == 10 * S * W

\* Math.round(gradeLevel * 10): floor(x + 1/2), also for negative x
FKRoundedTenths(W, S, Y) ==
    LET n == 2 * FKNumerator(W, S, Y) + FKDenominator(W, S)
        d == 2 * FKDenominator(W, S)
    IN  IF n >= 0 THEN n \div d ELSE -((-n + d - 1) \div d)

\* (a variant without the guard of line 314: 0/0 is NaN)
calculateFleschKincaidNoGuard(totalWords, totalSentences, totalSyllables) ==
    IF totalSentences = 0 \/ totalWords = 0 THEN NaN
    ELSE IF totalSyllables.kind # "number" THEN NaN
    ELSE Number(Max(0, FKRoundedTenths(totalWords, totalSentences, totalSyllables.v)))

calculateFleschKincaidNoFloor(totalWords, totalSentences, totalSyllables) ==
    IF totalSentences = 0 \/ totalWords = 0 THEN Number(0)
    ELSE IF totalSyllables.kind # "number" THEN NaN
    ELSE Number(FKRoundedTenths(totalWords, totalSentences, totalSyllables.v))

calculateFleschKincaid(totalWords, totalSentences, totalSyllables) ==
    IF totalSentences = 0 \/ totalWords = 0 THEN Number(0)
    ELSE IF totalSyllables.kind # "number" THEN NaN
    ELSE Number(Max(0, FKRoundedTenths(totalWords, totalSentences, totalSyllables.v)))

-----------------------------------------------------------------------------
(* calculateReadingTime (lines 331-359).  READING_SPEEDS[level.toUpperCase()] *)
(* finds an own property only for EASY, MEDIUM and HARD (Object.prototype  *)
(* has no property whose name is all upper case); "|| MEDIUM" applies     *)
(* when the property is absent or zero.                                    *)

baseWPMFor(level) ==
    LET key == toUpperCase(level)
    IN  IF key \in DOMAIN READING_SPEEDS /\ READING_SPEEDS[key] # 0
        THEN READING_SPEEDS[key]
        ELSE READING_SPEEDS.MEDIUM

\* Math.round(wordCount / baseWPM), a half going up
RoundRatio(n, d) == (2 * n + d) \div (2 * d)

calculateReadingTimeNoZeroCase(wordCount, level) ==
    LET baseWPM == baseWPMFor(level)
        minutes == RoundRatio(wordCount, baseWPM)
    IN  [minutes   |-> minutes,
         wpm       |-> baseWPM,
         formatted |-> IF 2 * wordCount < baseWPM THEN "< 1 min"
                       ELSE IF minutes = 1 THEN "1 min"
                       ELSE ToString(minutes) \o " mins"]

calculateReadingTimeFlatSpeed(wordCount, level) ==
    IF wordCount = 0 THEN [minutes |-> 0, formatted |-> "< 1 min", wpm |-> 0]
    ELSE calculateReadingTimeNoZeroCase(wordCount, "Medium")

calculateReadingTime(wordCount, level) ==
    IF wordCount = 0 THEN [minutes |-> 0, formatted |-> "< 1 min", wpm |-> 0]
    ELSE LET baseWPM == baseWPMFor(level)
             \* exactMinutes = wordCount / baseWPM
             minutes == RoundRatio(wordCount, baseWPM)
         IN  [minutes   |-> minutes,
              wpm       |-> baseWPM,
              formatted |-> IF 2 * wordCount < baseWPM THEN "< 1 min"
                            ELSE IF minutes = 1 THEN "1 min"
                            ELSE ToString(minutes) \o " mins"]

-----------------------------------------------------------------------------
(* classifySentenceQuality (lines 366-379); avgLength is a ratio.          *)

RatioLT(r, k) == r.num < k * r.den

RatioLE(r, k) == r.num <= k * r.den

classifySentenceQualityStrictBounds(avgLength) ==
    LET SENTENCE == LABELS.SENTENCE
    IN  IF RatioLT(avgLength, 8) THEN SENTENCE.TOO_SHORT @@ [quality |-> "short"]
        ELSE IF RatioLT(avgLength, 12) THEN SENTENCE.SHORT @@ [quality |-> "short-ok"]
        ELSE IF RatioLT(avgLength, 18) THEN SENTENCE.OPTIMAL @@ [quality |-> "optimal"]
        ELSE IF RatioLT(avgLength, 25) THEN SENTENCE.LONG @@ [quality |-> "long"]
        ELSE SENTENCE.TOO_LONG @@ [quality |-> "too-long"]

classifySentenceQuality(avgLength) ==
    LET SENTENCE == LABELS.SENTENCE
    IN  IF RatioLT(avgLength, 8) THEN SENTENCE.TOO_SHORT @@ [quality |-> "short"]
        ELSE IF RatioLE(avgLength, 12) THEN SENTENCE.SHORT @@ [quality |-> "short-ok"]
        ELSE IF RatioLE(avgLength, 18) THEN SENTENCE.OPTIMAL @@ [quality |-> "optimal"]
        ELSE IF RatioLE(avgLength, 25) THEN SENTENCE.LONG @@ [quality |-> "long"]
        ELSE SENTENCE.TOO_LONG @@ [quality |-> "too-long"]

-----------------------------------------------------------------------------
(* classifyWordCount (lines 386-399).                                      *)

classifyWordCount(wordCount) ==
    LET WORD_COUNT == LABELS.WORD_COUNT
    IN  IF wordCount < 300 THEN WORD_COUNT.QUICK @@ [category |-> "quick"]
        ELSE IF wordCount <= 700 THEN WORD_COUNT.SHORT @@ [category |-> "short"]
        ELSE IF wordCount <= 1400 THEN WORD_COUNT.MEDIUM @@ [category |-> "medium"]
        ELSE IF wordCount <= 2500 THEN WORD_COUNT.LONG @@ [category |-> "long"]
        ELSE WORD_COUNT.DEEP @@ [category |-> "deep"]

-----------------------------------------------------------------------------
(* classifyReadability (lines 410-478).  fkGrade is null, NaN or a number  *)
(* in tenths; a comparison with NaN is false.  complexRatio is a ratio and *)
(* COMPLEX_RATIO is in hundredths.                                         *)

GradeLE(g, k) == g.kind = "number" /\ g.tenths <= 10 * k

GradeLT(g, k) == g.kind = "number" /\ g.tenths < 10 * k

fallbackClassification(avgSentenceLength, complexRatio, wordCount) ==
    LET SENTENCE_LENGTH == THRESHOLDS.SENTENCE_LENGTH
        COMPLEX_RATIO == THRESHOLDS.COMPLEX_RATIO
        lengthScore == IF RatioLE(avgSentenceLength, SENTENCE_LENGTH.EASY) THEN 0
                       ELSE IF RatioLE(avgSentenceLength, SENTENCE_LENGTH.MEDIUM) THEN 1
                       ELSE 2
        ratioScore == IF 100 * complexRatio.num <= COMPLEX_RATIO.EASY * complexRatio.den THEN 0
                      ELSE IF 100 * complexRatio.num <= COMPLEX_RATIO.HARD * complexRatio.den THEN 1
                      ELSE 2
        score == lengthScore + ratioScore
        result == IF score <= 1 THEN "Easy" ELSE IF score <= 2 THEN "Medium" ELSE "Hard"
    IN  IF wordCount < 300 /\ result = "Hard" THEN "Medium" ELSE result

\* (a variant that puts grade 6.0 in Medium and softens every sub-300-word Hard)
gradeClassificationStrictEasy(fkGrade, wordCount) ==
    LET level == IF GradeLT(fkGrade, 6) THEN "Easy"
                 ELSE IF GradeLE(fkGrade, 12) THEN "Medium"
                 ELSE "Hard"
    IN  IF wordCount < 300 /\ level = "Hard" THEN "Medium" ELSE level

\* lines 418-436
gradeClassification(fkGrade, wordCount) ==
    LET level == IF GradeLE(fkGrade, 6) THEN "Easy"
                 ELSE IF GradeLE(fkGrade, 12) THEN "Medium"
                 ELSE "Hard"
    IN  IF wordCount < 300 /\ level = "Hard" /\ GradeLT(fkGrade, 15) THEN "Medium"
        ELSE level

classifyReadabilityNoGate(avgSentenceLength, complexRatio, fkGrade, wordCount) ==
    IF fkGrade.kind # "null" THEN gradeClassification(fkGrade, wordCount)
    ELSE fallbackClassification(avgSentenceLength, complexRatio, wordCount)

classifyReadability(avgSentenceLength, complexRatio, fkGrade, wordCount) ==
    IF wordCount < 100 THEN "Medium"
    ELSE IF fkGrade.kind # "null" THEN gradeClassification(fkGrade, wordCount)
    ELSE fallbackClassification(avgSentenceLength, complexRatio, wordCount)

-----------------------------------------------------------------------------
(* Regular expressions.  The character classes of a non-unicode JavaScript *)
(* regular expression, on the characters the checked texts are made of.    *)

Digits == CharSet("0123456789")

Letters == Upper \cup Lower

\* \w
WordChars == Letters \cup Digits \cup {"_"}

\* \s
WhiteSpace == {" ", "\t", "\n"}

\* the line terminators ^ follows under the m flag
LineTerminators == {"\n"}

\* \b between s[i-1] and s[i]: exactly one of the two is a word character
Boundary(s, i) == (CharAt(s, i - 1) \in WordChars) # (CharAt(s, i) \in WordChars)

\* the first position from i on whose character is not in class (Len(s) + 1 if none):
\* the end of the greedy match of [class]* at i
RECURSIVE RunEnd(_, _, _)
RunEnd(s, i, class) ==
    IF CharAt(s, i) \in class THEN RunEnd(s, i + 1, class) ELSE i

\* the end of a match of [^\s]* at i
RECURSIVE NonSpaceEnd(_, _)
NonSpaceEnd(s, i) ==
    IF i <= Len(s) /\ CharAt(s, i) \notin WhiteSpace THEN NonSpaceEnd(s, i + 1) ELSE i

\* whether the literal lit stands in s at position i
LiteralAt(s, i, lit) ==
    i >= 1 /\ i + Len(lit) - 1 <= Len(s) /\ SubSeq(s, i, i + Len(lit) - 1) = lit

\* the same without regard to case (the i flag)
LiteralAtIgnoreCase(s, i, lit) ==
    i >= 1 /\ i + Len(lit) - 1 <= Len(s)
    /\ \A k \in 1..Len(lit) : ToLowerChar(CharAt(s, i + k - 1)) = ToLowerChar(CharAt(lit, k))

\* String.prototype.trim
RECURSIVE TrimStart(_, _)
TrimStart(s, i) == IF CharAt(s, i) \in WhiteSpace THEN TrimStart(s, i + 1) ELSE i

RECURSIVE TrimEnd(_, _)
TrimEnd(s, j) == IF CharAt(s, j) \in WhiteSpace THEN TrimEnd(s, j - 1) ELSE j

trim(s) == SubSeq(s, TrimStart(s, 1), TrimEnd(s, Len(s)))

(* https?:\/\/[^\s]+ at i: the length of the match, 0 if none.              *)
UrlMatch(s, i) ==
    LET p == IF LiteralAt(s, i, "https://") THEN i + 8
             ELSE IF LiteralAt(s, i, "http://") THEN i + 7
             ELSE 0
        e == NonSpaceEnd(s, p)
    IN  IF p > 0 /\ e > p THEN e - i ELSE 0

(* [\w.-]+@[\w.-]+\.\w+ at i.  The first class run is greedy and must be   *)
(* followed by "@"; the second gives back characters until a "." followed  *)
(* by a word character is found, so the match ends after the word          *)
(* characters that follow the last such "." of the run.                    *)
EmailChars == WordChars \cup {".", "-"}

EmailMatch(s, i) ==
    LET a == RunEnd(s, i, EmailChars)
        b == RunEnd(s, a + 1, EmailChars)
        dots == {d \in (a + 2)..(b - 2) : CharAt(s, d) = "." /\ CharAt(s, d + 1) \in WordChars}
    IN  IF a > i /\ CharAt(s, a) = "@" /\ dots # {}
        THEN LET d == CHOOSE x \in dots : \A y \in dots : y <= x
             IN  RunEnd(s, d + 1, WordChars) - i
        ELSE 0

(* \b\d+([.,]\d+)*\s*(%|px|em|rem|pt|cm|mm|in|kg|lb|oz|km|mi|mph|fps)?\b   *)
(* with the i flag, at i.  The digit runs are greedy; the groups, the      *)
(* white space and the unit give back in that order of preference.         *)
Units == <<"%", "px", "em", "rem", "pt", "cm", "mm", "in", "kg", "lb", "oz",
           "km", "mi", "mph", "fps">>

\* the end of the groups ([.,]\d+)* taken greedily from p
RECURSIVE GroupsEnd(_, _)
GroupsEnd(s, p) ==
    IF CharAt(s, p) \in {".", ","} /\ CharAt(s, p + 1) \in Digits
    THEN GroupsEnd(s, RunEnd(s, p + 1, Digits))
    ELSE p

\* the start of the last group that ends at p, taken from p0 (p0 if there is none)
RECURSIVE LastGroupStart(_, _, _)
LastGroupStart(s, p0, p) ==
    LET next == RunEnd(s, p0 + 1, Digits)
    IN  IF next >= p THEN p0 ELSE LastGroupStart(s, next, p)

\* \s*(unit)?\b from p: the end of the match, 0 if none
NumberTailEnd(s, p) ==
    LET q == RunEnd(s, p, WhiteSpace)
        fits == {u \in 1..Len(Units) :
                    LiteralAtIgnoreCase(s, q, Units[u]) /\ Boundary(s, q + Len(Units[u]))}
        stops == {j \in p..q : Boundary(s, j)}
    IN  IF fits # {}
        THEN q + Len(Units[CHOOSE u \in fits : \A v \in fits : u <= v])
        ELSE IF stops # {} THEN CHOOSE j \in stops : \A k \in stops : k <= j
        ELSE 0

NumberMatch(s, i) ==
    IF CharAt(s, i) \in Digits /\ Boundary(s, i)
    THEN LET d == RunEnd(s, i, Digits)
             g == GroupsEnd(s, d)
             e == NumberTailEnd(s, g)
         IN  IF e > 0 THEN e - i
             \* one group fewer: the match ends before its "." or ","
             ELSE IF g > d THEN LastGroupStart(s, d, g) - i
             ELSE 0
    ELSE 0

(* \$[\d,.]+ at i.                                                         *)
CurrencyMatch(s, i) ==
    LET e == RunEnd(s, i + 1, Digits \cup {",", "."})
    IN  IF CharAt(s, i) = "$" /\ e > i + 1 THEN e - i ELSE 0

(* \b(mr|mrs|...)\.(?=\s|$) with the i flag at i, the alternatives being   *)
(* the members of ABBREVIATIONS (lines 192-193).  Every alternative is a   *)
(* run of letters and must be followed by ".", so the one that matches is  *)
(* the whole run of letters that starts at i.                              *)
AbbreviationMatch(s, i) ==
    LET e == RunEnd(s, i, Letters)
    IN  IF /\ Boundary(s, i)
           /\ e > i
           /\ CharAt(s, e) = "."
           /\ toLowerCase(SubSeq(s, i, e - 1)) \in ABBREVIATIONS
           /\ (CharAt(s, e + 1) \in WhiteSpace \/ e = Len(s))
        THEN e + 1 - i
        ELSE 0

(* \b([A-Z])\.\s(?=[A-Z]\.?\s?) at i.                                       *)
InitialMatch(s, i) ==
    IF /\ Boundary(s, i)
       /\ CharAt(s, i) \in Upper
       /\ CharAt(s, i + 1) = "."
       /\ CharAt(s, i + 2) \in WhiteSpace
       /\ CharAt(s, i + 3) \in Upper
    THEN 3 ELSE 0

(* (\d+)\.\s from i: the length of the match, 0 if none.                   *)
NumberedItemMatch(s, i) ==
    LET d == RunEnd(s, i, Digits)
    IN  IF d > i /\ CharAt(s, d) = "." /\ CharAt(s, d + 1) \in WhiteSpace
        THEN d + 2 - i
        ELSE 0

(* ([.!?])\s+(?=[A-Z"'([{]|$) at i: the white space is taken whole (after a *)
(* shorter run comes white space, which the lookahead refuses).            *)
SentenceEndMatch(s, i) ==
    LET w == RunEnd(s, i + 1, WhiteSpace)
    IN  IF /\ CharAt(s, i) \in {".", "!", "?"}
           /\ w > i + 1
           /\ (CharAt(s, w) \in Upper \cup {"\"", "'", "(", "[", "{"} \/ w = Len(s) + 1)
        THEN w - i
        ELSE 0

(* The markers extractSentences protects text with, and what each is       *)
(* restored to (lines 211-217).                                            *)
Restored ==
    [m \in {"<URL>", "<EMAIL>", "<ABBR>", "<DEC>", "<ELLIP>", "<INIT>", "<NUM>"} |->
        CASE m = "<URL>" -> "[URL]"
          [] m = "<EMAIL>" -> "[EMAIL]"
          [] m = "<ELLIP>" -> "..."
          [] OTHER -> "."]

(* The length of the match of a rule at position i of s, 0 if it does not  *)
(* match there (no rule matches the empty string).                         *)
MatchLength(rule, s, i) ==
    CASE rule = "whitespace" ->                  \* \s+
            RunEnd(s, i, WhiteSpace) - i
      [] rule \in {"url", "protectUrl"} -> UrlMatch(s, i)
      [] rule \in {"email", "protectEmail"} -> EmailMatch(s, i)
      [] rule = "brackets" ->                    \* [<>{}[\]]
            IF CharAt(s, i) \in {"<", ">", "{", "}", "[", "]"} THEN 1 ELSE 0
      [] rule = "number" -> NumberMatch(s, i)
      [] rule = "nonword" ->                     \* [^\w\s'-]
            IF CharAt(s, i) \notin (WordChars \cup WhiteSpace \cup {"'", "-"}) THEN 1 ELSE 0
      [] rule = "hyphen" ->                      \* the separator '-'
            IF CharAt(s, i) = "-" THEN 1 ELSE 0
      [] rule = "decimal" ->                     \* (\d)\.(\d)
            IF CharAt(s, i) \in Digits /\ CharAt(s, i + 1) = "." /\ CharAt(s, i + 2) \in Digits
            THEN 3 ELSE 0
      [] rule = "currency" -> CurrencyMatch(s, i)
      [] rule = "ellipsis" ->                    \* \.{2,}
            LET e == RunEnd(s, i, {"."}) IN IF e - i >= 2 THEN e - i ELSE 0
      [] rule = "abbreviation" -> AbbreviationMatch(s, i)
      [] rule = "initial" -> InitialMatch(s, i)
      [] rule = "listStart" ->                   \* ^(\d+)\.\s with the m flag
            IF i = 1 \/ CharAt(s, i - 1) \in LineTerminators
            THEN NumberedItemMatch(s, i) ELSE 0
      [] rule = "listItem" ->                    \* \s(\d+)\.\s
            IF CharAt(s, i) \in WhiteSpace /\ NumberedItemMatch(s, i + 1) > 0
            THEN 1 + NumberedItemMatch(s, i + 1) ELSE 0
      [] rule = "sentenceEnd" -> SentenceEndMatch(s, i)
      [] rule = "textEnd" ->                     \* ([.!?])$
            IF i = Len(s) /\ CharAt(s, i) \in {".", "!", "?"} THEN 1 ELSE 0
      [] rule = "<SPLIT>" \/ rule \in DOMAIN Restored ->   \* the literal itself
            IF LiteralAt(s, i, rule) THEN Len(rule) ELSE 0

\* match => match.replace(/\./g, '<DEC>') (line 186)
DotsProtected(match) ==
    Concat([k \in 1..Len(match) |->
               IF CharAt(match, k) = "." THEN "<DEC>" ELSE CharAt(match, k)], 1, Len(match))

(* What a match of the rule at i, of length len, is replaced by.           *)
Replacement(rule, s, i, len) ==
    CASE rule \in {"whitespace", "brackets", "nonword"} -> " "
      [] rule \in {"url", "email", "number"} -> ""
      [] rule = "protectUrl" -> "<URL>"
      [] rule = "protectEmail" -> "<EMAIL>"
      [] rule = "decimal" -> CharAt(s, i) \o "<DEC>" \o CharAt(s, i + 2)
      [] rule = "currency" -> DotsProtected(SubSeq(s, i, i + len - 1))
      [] rule = "ellipsis" -> "<ELLIP>"
      [] rule = "abbreviation" -> SubSeq(s, i, i + len - 2) \o "<ABBR>"
      [] rule = "initial" -> CharAt(s, i) \o "<INIT> "
      [] rule = "listStart" -> SubSeq(s, i, i + len - 3) \o "<NUM> "
      [] rule = "listItem" -> " " \o SubSeq(s, i + 1, i + len - 3) \o "<NUM> "
      [] rule \in {"sentenceEnd", "textEnd"} -> CharAt(s, i) \o "<SPLIT>"
      [] rule \in DOMAIN Restored -> Restored[rule]

(* String.prototype.replace with a g-flagged expression: the matches are   *)
(* taken from left to right, each search starting where the last match     *)
(* ended.  Scan covers positions lo..hi, the search standing at pos; it    *)
(* gives the position the search stands at afterwards and the text these   *)
(* positions produce.  The range is halved rather than walked.             *)
RECURSIVE Scan(_, _, _, _, _)
Scan(rule, s, lo, hi, pos) ==
    IF pos > hi \/ lo > hi THEN [pos |-> pos, out |-> ""]
    ELSE IF lo = hi
    THEN Bind(MatchLength(rule, s, lo), LAMBDA len :
            IF len > 0
            THEN [pos |-> lo + len, out |-> Replacement(rule, s, lo, len)]
            ELSE [pos |-> lo + 1, out |-> CharAt(s, lo)])
    ELSE Bind(Scan(rule, s, lo, (lo + hi) \div 2, pos), LAMBDA left :
         Bind(Scan(rule, s, ((lo + hi) \div 2) + 1, hi, left.pos), LAMBDA right :
            [pos |-> right.pos, out |-> left.out \o right.out]))

ReplaceAll(rule, s) == Bind(s, LAMBDA str : Scan(rule, str, 1, Len(str), 1).out)

(* String.prototype.split: the pieces between the matches of a rule.  A    *)
(* range gives the pieces it produces, of which the first continues the    *)
(* last piece of the range before it.                                      *)
JoinPieces(L, R) ==
    SubSeq(L, 1, Len(L) - 1) \o <<L[Len(L)] \o R[1]>> \o SubSeq(R, 2, Len(R))

RECURSIVE SplitScan(_, _, _, _, _)
SplitScan(rule, s, lo, hi, pos) ==
    IF pos > hi \/ lo > hi THEN [pos |-> pos, parts |-> <<"">>]
    ELSE IF lo = hi
    THEN Bind(MatchLength(rule, s, lo), LAMBDA len :
            IF len > 0
            THEN [pos |-> lo + len, parts |-> <<"", "">>]
            ELSE [pos |-> lo + 1, parts |-> <<CharAt(s, lo)>>])
    ELSE Bind(SplitScan(rule, s, lo, (lo + hi) \div 2, pos), LAMBDA left :
         Bind(SplitScan(rule, s, ((lo + hi) \div 2) + 1, hi, left.pos), LAMBDA right :
            [pos |-> right.pos, parts |-> JoinPieces(left.parts, right.parts)]))

Split(rule, s) == Bind(s, LAMBDA str : SplitScan(rule, str, 1, Len(str), 1).parts)

\* String.prototype.includes for a single character
Includes(s, c) == \E i \in 1..Len(s) : CharAt(s, i) = c

\* the concatenation of the sequences f[lo], ..., f[hi], by halves
RECURSIVE Flatten(_, _, _)
Flatten(f, lo, hi) ==
    IF lo > hi THEN <<>>
    ELSE IF lo = hi THEN f[lo]
    ELSE LET mid == (lo + hi) \div 2
         IN  Flatten(f, lo, mid) \o Flatten(f, mid + 1, hi)

-----------------------------------------------------------------------------
(* extractWords (lines 235-276), on a string.                              *)

NonEmpty(w) == Len(w) > 0

\* the flatMap callback (lines 256-265)
SplitCompound(token) ==
    Bind(trim(toLowerCase(token)), LAMBDA word :
        IF Includes(word, "-") /\ ~Includes(word, "'")
        THEN SelectSeq(Split("hyphen", word), NonEmpty)
        ELSE <<word>>)

LetterCount(w) == Cardinality({i \in 1..Len(w) : CharAt(w, i) \in Letters})

\* the filter callback (lines 266-275)
KeepWord(w) ==
    /\ ~(Len(w) < 2)
    /\ CharAt(w, 1) \in Letters
    /\ ~(2 * LetterCount(w) < Len(w))
    /\ ~(Len(w) > 0 /\ \A i \in 1..Len(w) : CharAt(w, i) \in {"-", "'"})

cleanForWords(text) ==
    trim(ReplaceAll("whitespace",
         ReplaceAll("nonword",
         ReplaceAll("number",
         ReplaceAll("brackets",
         ReplaceAll("email",
         ReplaceAll("url", text)))))))

extractWords(text) ==
    IF text = "" THEN <<>>
    ELSE Bind(Split("whitespace", cleanForWords(text)), LAMBDA tokens :
            SelectSeq(Flatten([k \in 1..Len(tokens) |-> SplitCompound(tokens[k])],
                              1, Len(tokens)),
                      KeepWord))

-----------------------------------------------------------------------------
(* extractSentences (lines 169-227), on a string.                          *)

\* lines 173-201: white space normalised, then the protections in order
protect(text) ==
    ReplaceAll("listItem",
    ReplaceAll("listStart",
    ReplaceAll("initial",
    ReplaceAll("abbreviation",
    ReplaceAll("ellipsis",
    ReplaceAll("currency",
    ReplaceAll("decimal",
    ReplaceAll("protectEmail",
    ReplaceAll("protectUrl",
    trim(ReplaceAll("whitespace", text)))))))))))

\* the map callback (lines 208-219)
restore(s) ==
    trim(ReplaceAll("<NUM>",
         ReplaceAll("<INIT>",
         ReplaceAll("<ELLIP>",
         ReplaceAll("<DEC>",
         ReplaceAll("<ABBR>",
         ReplaceAll("<EMAIL>",
         ReplaceAll("<URL>", s))))))))

HasLetter(w) == \E i \in 1..Len(w) : CharAt(w, i) \in Letters

\* the filter callback (lines 220-224)
KeepSentence(s) ==
    LET words == SelectSeq(Split("whitespace", s), HasLetter)
    IN  Len(s) > 5 /\ Len(words) >= 3

extractSentences(text) ==
    IF text = "" \/ Len(trim(text)) = 0 THEN <<>>
    ELSE Bind(Split("<SPLIT>", ReplaceAll("textEnd", ReplaceAll("sentenceEnd", protect(text)))),
              LAMBDA pieces :
                 SelectSeq([k \in 1..Len(pieces) |-> restore(pieces[k])], KeepSentence))

-----------------------------------------------------------------------------
(* countSyllables (lines 102-161), on a string.  The result is a           *)
(* JavaScript value: an integer [kind |-> "number", v |-> n] or, by the    *)
(* lookup of line 109, whatever the property of that name is.              *)

Integer(n) == [kind |-> "number", v |-> n]

(* this.SYLLABLE_OVERRIDES[word] on a name the object does not own goes to *)
(* Object.prototype.  word is in lower case, and the members of            *)
(* Object.prototype with a lower-case name are constructor (the function   *)
(* Object) and __proto__ (an object); both are truthy.                     *)
ObjectPrototype ==
    ("constructor" :> [kind |-> "function"]) @@ ("__proto__" :> [kind |-> "object"])

\* a + b: the sum of two numbers; with a function, an object or a string, a string
Plus(a, b) ==
    IF a.kind = "number" /\ b.kind = "number" THEN Integer(a.v + b.v)
    ELSE [kind |-> "string"]

(* reduce((sum, x) => sum + x, 0) over f[lo], ..., f[hi], by halves (a     *)
(* number when every term is one, a string as soon as one is not).         *)
RECURSIVE SumOf(_, _, _)
SumOf(f, lo, hi) ==
    IF lo > hi THEN Integer(0)
    ELSE IF lo = hi THEN Plus(Integer(0), f[lo])
    ELSE LET mid == (lo + hi) \div 2
         IN  Plus(SumOf(f, lo, mid), SumOf(f, mid + 1, hi))

\* String.prototype.endsWith
endsWith(word, suffix) ==
    Len(word) >= Len(suffix) /\ SubSeq(word, Len(word) - Len(suffix) + 1, Len(word)) = suffix

\* lines 122-127, index counted from 1
isVowel(word, index) ==
    \/ CharAt(word, index) \in {"a", "e", "i", "o", "u"}
    \/ CharAt(word, index) = "y" /\ index > 1

\* lines 118-160
vowelGroupSyllables(word) ==
    LET groups == Cardinality({i \in 1..Len(word) : isVowel(word, i) /\ ~isVowel(word, i - 1)})
        silentE == IF /\ endsWith(word, "e") /\ ~endsWith(word, "le")
                      /\ ~endsWith(word, "ee") /\ ~endsWith(word, "ie")
                   THEN Max(1, groups - 1) ELSE groups
        ed == IF /\ endsWith(word, "ed") /\ Len(word) > 3
                 /\ CharAt(word, Len(word) - 2) \notin {"t", "d"}
              THEN Max(1, silentE - 1) ELSE silentE
        es == IF /\ endsWith(word, "es") /\ Len(word) > 3
                 /\ CharAt(word, Len(word) - 2) \notin {"s", "x", "z", "h"}
                 /\ ~endsWith(word, "ches") /\ ~endsWith(word, "shes")
              THEN Max(1, ed - 1) ELSE ed
    IN  Max(1, es)

RECURSIVE countSyllables(_)
countSyllables(word0) ==
    IF word0 = "" THEN Integer(0)
    ELSE Bind(trim(toLowerCase(word0)), LAMBDA word :
            IF Len(word) <= 2 THEN Integer(1)
            ELSE IF word \in DOMAIN SYLLABLE_OVERRIDES /\ SYLLABLE_OVERRIDES[word] # 0
            THEN Integer(SYLLABLE_OVERRIDES[word])
            ELSE IF word \notin DOMAIN SYLLABLE_OVERRIDES /\ word \in DOMAIN ObjectPrototype
            THEN ObjectPrototype[word]
            ELSE IF Includes(word, "-")
            THEN Bind(Split("hyphen", word), LAMBDA parts :
                    SumOf([k \in 1..Len(parts) |-> countSyllables(parts[k])], 1, Len(parts)))
            ELSE Integer(vowelGroupSyllables(word)))

-----------------------------------------------------------------------------
(* identifyComplexWords (lines 283-304).  syllables >= 3 is false when     *)
(* syllables is not a number.  words is the set of the distinct complex    *)
(* words (their order in the list is not kept).                            *)

isComplexWord(word) ==
    /\ ~(Len(word) < 6)
    /\ word \notin COMMON_POLYSYLLABIC
    /\ LET syllables == countSyllables(word)
       IN  syllables.kind = "number" /\ syllables.v >= 3

identifyComplexWords(words) ==
    LET complexWords == SelectSeq(words, isComplexWord)
    IN  [words |-> {complexWords[k] : k \in 1..Len(complexWords)},
         count |-> Len(complexWords),
         ratio |-> IF Len(words) > 0 THEN Ratio(Len(complexWords), Len(words))
                   ELSE Ratio(0, 1)]

-----------------------------------------------------------------------------
(* countClauses (lines 485-523).                                           *)

connectingWords ==
    <<"however", "therefore", "moreover", "furthermore", "nevertheless",
      "because", "since", "although", "though", "while", "whereas", "unless", "until",
      "which", "who", "whom", "whose", "where", "when", "whether",
      "if", "provided", "assuming">>

(* (?:^|[,;]\s+)\bword\b at i.  A match holds "," or ";" only as its first *)
(* character, so two matches never overlap and match(...).length is the    *)
(* number of positions where the expression matches.                       *)
ConnectiveAt(s, i, word) ==
    LET w == RunEnd(s, i + 1, WhiteSpace)
    IN  \/ i = 1 /\ LiteralAt(s, 1, word) /\ Boundary(s, 1) /\ Boundary(s, 1 + Len(word))
        \/ /\ CharAt(s, i) \in {",", ";"}
           /\ w > i + 1
           /\ LiteralAt(s, w, word) /\ Boundary(s, w) /\ Boundary(s, w + Len(word))

\* \b(?<!so\s|such\s)that\b at i
ThatAt(s, i) ==
    /\ Boundary(s, i) /\ LiteralAt(s, i, "that") /\ Boundary(s, i + 4)
    /\ ~(LiteralAt(s, i - 3, "so") /\ CharAt(s, i - 1) \in WhiteSpace)
    /\ ~(LiteralAt(s, i - 5, "such") /\ CharAt(s, i - 1) \in WhiteSpace)

\* (a variant that adds every match of "that")
countClausesUncapped(sentence) ==
    Bind(toLowerCase(sentence), LAMBDA lowerSentence :
        LET strongPunctuation == {i \in 1..Len(sentence) : CharAt(sentence, i) \in {";", ":"}}
            starts == {i \in 1..Len(lowerSentence) :
                          i = 1 \/ CharAt(lowerSentence, i) \in {",", ";"}}
            matches == {m \in (1..Len(connectingWords)) \X starts :
                           ConnectiveAt(lowerSentence, m[2], connectingWords[m[1]])}
            thatMatches == {i \in 1..Len(lowerSentence) : ThatAt(lowerSentence, i)}
        IN  1 + Cardinality(strongPunctuation) + Cardinality(matches)
              + Cardinality(thatMatches))

\* lines 494-522
countClauses(sentence) ==
    Bind(toLowerCase(sentence), LAMBDA lowerSentence :
        LET strongPunctuation == {i \in 1..Len(sentence) : CharAt(sentence, i) \in {";", ":"}}
            starts == {i \in 1..Len(lowerSentence) :
                          i = 1 \/ CharAt(lowerSentence, i) \in {",", ";"}}
            matches == {m \in (1..Len(connectingWords)) \X starts :
                           ConnectiveAt(lowerSentence, m[2], connectingWords[m[1]])}
            thatMatches == {i \in 1..Len(lowerSentence) : ThatAt(lowerSentence, i)}
        IN  1 + Cardinality(strongPunctuation) + Cardinality(matches)
              + Min(Cardinality(thatMatches), 3))

-----------------------------------------------------------------------------
(* identifyComplexSentences (lines 530-559).  The threshold read at line   *)
(* 531 is not used: the test of line 544 is on the literal 3.              *)

\* (a variant that tests the clause count against THRESHOLDS.CLAUSE_DENSITY.COMPLEX)
isComplexSentenceByThreshold(clauseCount, wordCount) ==
    clauseCount >= THRESHOLDS.CLAUSE_DENSITY.COMPLEX /\ wordCount >= 20

\* line 544
isComplexSentence(clauseCount, wordCount) == clauseCount >= 3 /\ wordCount >= 20

Reported(entry) == isComplexSentence(entry.clauseCount, entry.wordCount)

\* (a variant that numbers the sentences within their paragraph)
paragraphComplexSentencesLocalIndex(pSentences, pIndex, globalSentenceIndex) ==
    SelectSeq([k \in 1..Len(pSentences) |->
                  [text           |-> pSentences[k],
                   clauseCount    |-> countClauses(pSentences[k]),
                   wordCount      |-> Len(extractWords(pSentences[k])),
                   index          |-> k - 1,
                   paragraphIndex |-> pIndex,
                   isComplex      |-> TRUE]],
              Reported)

\* the inner forEach (lines 538-555), globalSentenceIndex being the index of the first sentence
paragraphComplexSentences(pSentences, pIndex, globalSentenceIndex) ==
    SelectSeq([k \in 1..Len(pSentences) |->
                  [text           |-> pSentences[k],
                   clauseCount    |-> countClauses(pSentences[k]),
                   wordCount      |-> Len(extractWords(pSentences[k])),
                   index          |-> globalSentenceIndex + k - 1,
                   paragraphIndex |-> pIndex,
                   isComplex      |-> TRUE]],
              Reported)

\* the outer forEach (lines 535-556) from the paragraph of index pIndex on
RECURSIVE complexSentencesFrom(_, _, _)
complexSentencesFrom(paragraphs, pIndex, globalSentenceIndex) ==
    IF pIndex >= Len(paragraphs) THEN <<>>
    ELSE Bind(extractSentences(paragraphs[pIndex + 1]), LAMBDA pSentences :
            paragraphComplexSentences(pSentences, pIndex, globalSentenceIndex)
            \o complexSentencesFrom(paragraphs, pIndex + 1,
                                    globalSentenceIndex + Len(pSentences)))

identifyComplexSentences(paragraphs) == complexSentencesFrom(paragraphs, 0, 0)

-----------------------------------------------------------------------------
(* identifyDenseParagraphs (lines 567-594).                                *)

IsDense(entry) == entry.isDense

\* (a variant whose first test is on more than DENSE words)
denseParagraphEntryOverDense(para, index) ==
    Bind(<<Len(extractWords(para)), Len(extractSentences(para))>>, LAMBDA counts :
        LET words == counts[1]
            sentences == counts[2]
        IN  [text              |-> para,
             index             |-> index,
             wordCount         |-> words,
             sentenceCount     |-> sentences,
             avgSentenceLength |-> IF sentences > 0 THEN Number(RoundTenths(words, sentences))
                                   ELSE Number(0),
             isDense           |-> \/ words > THRESHOLDS.PARAGRAPH_DENSITY.DENSE
                                      /\ sentences >= THRESHOLDS.PARAGRAPH_DENSITY.MIN_SENTENCES
                                   \/ words >= 150
                                   \/ words >= 80 /\ sentences > 0 /\ words >= 25 * sentences])

\* (a variant that numbers the paragraphs from 1)
denseParagraphEntryCountingFromOne(para, index) ==
    Bind(<<Len(extractWords(para)), Len(extractSentences(para))>>, LAMBDA counts :
        LET words == counts[1]
            sentences == counts[2]
        IN  [text              |-> para,
             index             |-> index + 1,
             wordCount         |-> words,
             sentenceCount     |-> sentences,
             avgSentenceLength |-> IF sentences > 0 THEN Number(RoundTenths(words, sentences))
                                   ELSE Number(0),
             isDense           |-> \/ words >= THRESHOLDS.PARAGRAPH_DENSITY.DENSE
                                      /\ sentences >= THRESHOLDS.PARAGRAPH_DENSITY.MIN_SENTENCES
                                   \/ words >= 150
                                   \/ words >= 80 /\ sentences > 0 /\ words >= 25 * sentences])

denseParagraphEntry(para, index) ==
    Bind(<<Len(extractWords(para)), Len(extractSentences(para))>>, LAMBDA counts :
        LET DENSE == THRESHOLDS.PARAGRAPH_DENSITY.DENSE
            MIN_SENTENCES == THRESHOLDS.PARAGRAPH_DENSITY.MIN_SENTENCES
            words == counts[1]
            sentences == counts[2]
            isDenseByLength == words >= DENSE /\ sentences >= MIN_SENTENCES
            isVeryLong == words >= 150
            \* words / sentences >= 25
            isComplexAndLong == words >= 80 /\ sentences > 0 /\ words >= 25 * sentences
        IN  [text              |-> para,
             index             |-> index,
             wordCount         |-> words,
             sentenceCount     |-> sentences,
             avgSentenceLength |-> IF sentences > 0 THEN Number(RoundTenths(words, sentences))
                                   ELSE Number(0),
             isDense           |-> isDenseByLength \/ isVeryLong \/ isComplexAndLong])

identifyDenseParagraphs(paragraphs) ==
    SelectSeq([k \in 1..Len(paragraphs) |-> denseParagraphEntry(paragraphs[k], k - 1)], IsDense)

-----------------------------------------------------------------------------
(* analyzeText (lines 602-654).  The text argument is a JavaScript value:  *)
(* its type and, for a string, the string itself, for a value of another   *)
(* type, the literal that denotes it.  Both                                *)
(* extractors return [] on a falsy argument (lines 170 and 236); on a      *)
(* truthy argument that is not a string, extractSentences calls            *)
(* text.trim(), which is not a function, and a TypeError leaves            *)
(* analyzeText.                                                            *)

String(s) == [type |-> "string", value |-> s]

Value(type, literal) == [type |-> type, value |-> literal]

\* !text
Falsy(text) ==
    \/ text.type \in {"null", "undefined"}
    \/ text.type = "string" /\ text.value = ""
    \/ text.type = "number" /\ text.value \in {"0", "NaN"}
    \/ text.type = "boolean" /\ text.value = "false"

\* lines 607-653, sentences and words being the lists of lines 604-605
analysisOf(sentences, words, paragraphs) ==
    Bind(SumOf([k \in 1..Len(words) |-> countSyllables(words[k])], 1, Len(words)),
         LAMBDA totalSyllables :
    Bind(identifyComplexWords(words), LAMBDA complexWordData :
    Bind(identifyComplexSentences(paragraphs), LAMBDA complexSentences :
    Bind(identifyDenseParagraphs(paragraphs), LAMBDA denseParagraphs :
        LET avgSentenceLength == IF Len(sentences) > 0 THEN Ratio(Len(words), Len(sentences))
                                 ELSE Ratio(0, 1)
            fkGrade == calculateFleschKincaid(Len(words), Len(sentences), totalSyllables)
            level == classifyReadability(avgSentenceLength, complexWordData.ratio,
                                         fkGrade, Len(words))
        IN  [level             |-> level,
             grade             |-> fkGrade,
             readingTime       |-> calculateReadingTime(Len(words), level),
             wordCount         |-> Len(words),
             wordCountCategory |-> classifyWordCount(Len(words)),
             sentenceCount     |-> Len(sentences),
             avgSentenceLength |-> Number(RoundTenths(avgSentenceLength.num,
                                                      avgSentenceLength.den)),
             sentenceQuality   |-> classifySentenceQuality(avgSentenceLength),
             isLowConfidence   |-> Len(words) < 100,
             issues            |-> [complexSentences |-> complexSentences,
                                    denseParagraphs  |-> denseParagraphs],
             issueCount        |-> Len(complexSentences) + Len(denseParagraphs)]))))

\* (a variant that takes the words to be the pieces between white space)
analysisOfPieces(text, paragraphs) ==
    Bind(extractSentences(text), LAMBDA sentences :
    Bind(Split("whitespace", trim(text)), LAMBDA words :
        analysisOf(sentences, words, paragraphs)))

\* the record analyzeText returns for the string the extractors work on
analysis(text, paragraphs) ==
    Bind(extractSentences(text), LAMBDA sentences :
    Bind(extractWords(text), LAMBDA words :
        analysisOf(sentences, words, paragraphs)))

\* what a call of analyzeText comes to: a returned record or a thrown error
analyzeText(text, paragraphs) ==
    IF text.type = "string" THEN [state |-> "returned", ret |-> analysis(text.value, paragraphs)]
    ELSE IF Falsy(text) THEN [state |-> "returned", ret |-> analysis("", paragraphs)]
    ELSE [state |-> "thrown", ret |-> "TypeError: text.trim is not a function"]

-----------------------------------------------------------------------------
(* The content script (lines 669-989).  The page is a record: contentArea  *)
(* tells whether lines 711-720 find an element (a match of a selector, or  *)
(* document.body), textElements is what querySelectorAll of line 735 gives *)
(* in it, in document order.  An element is known by its place in that     *)
(* list; it has its textContent, whether it lies in an excluded area       *)
(* (line 739), and its classList.  analysisResults is null or the record   *)
(* of line 779 with the elements and paragraphs of lines 780-781.          *)

HIGHLIGHT_BATCH_SIZE == 50

undefined == [kind |-> "undefined", tenths |-> 0]

Element(textContent, isExcluded) ==
    [textContent |-> textContent, isExcluded |-> isExcluded, classList |-> {}]

\* Array.prototype.join
join(parts, separator) ==
    Concat([k \in 1..Len(parts) |-> IF k < Len(parts) THEN parts[k] \o separator ELSE parts[k]],
           1, Len(parts))

\* (a variant that keeps the text of every element that is not excluded)
extractPageContentEveryText(doc) ==
    IF ~doc.contentArea
    THEN [state |-> "thrown", ret |-> "Cannot read properties of null (reading 'querySelectorAll')"]
    ELSE Bind(SelectSeq([i \in 1..Len(doc.textElements) |-> i],
                        LAMBDA i : /\ ~doc.textElements[i].isExcluded
                                   /\ Len(trim(doc.textElements[i].textContent)) > 10),
              LAMBDA paragraphElements :
         Bind(SelectSeq([i \in 1..Len(doc.textElements) |-> i],
                        LAMBDA i : ~doc.textElements[i].isExcluded),
              LAMBDA textElements :
         Bind([k \in 1..Len(textElements) |-> trim(doc.textElements[textElements[k]].textContent)],
              LAMBDA textParts :
            [state |-> "returned",
             ret   |-> [fullText   |-> join(textParts, " "),
                        paragraphs |-> textParts,
                        elements   |-> paragraphElements]])))

\* lines 688-757: the content returned, or the error thrown at line 735 when
\* there is no content area (document.body is null)
extractPageContent(doc) ==
    IF ~doc.contentArea
    THEN [state |-> "thrown", ret |-> "Cannot read properties of null (reading 'querySelectorAll')"]
    ELSE Bind(SelectSeq([i \in 1..Len(doc.textElements) |-> i],
                        LAMBDA i : /\ ~doc.textElements[i].isExcluded
                                   /\ Len(trim(doc.textElements[i].textContent)) > 10),
              LAMBDA paragraphElements :
         Bind([k \in 1..Len(paragraphElements) |->
                  trim(doc.textElements[paragraphElements[k]].textContent)],
              LAMBDA textParts :
            [state |-> "returned",
             ret   |-> [fullText   |-> join(textParts, " "),
                        paragraphs |-> textParts,
                        elements   |-> paragraphElements]]))

\* lines 768-776
NotEnoughText ==
    [error             |-> "Not enough text content to analyze",
     level             |-> "N/A",
     readingTime       |-> [formatted |-> "N/A"],
     wordCount         |-> 0,
     sentenceCount     |-> 0,
     avgSentenceLength |-> 0,
     issues            |-> [complexSentences |-> <<>>, denseParagraphs |-> <<>>]]

\* lines 785-788
AnalysisFailed(message) ==
    [error |-> "Analysis failed. Please try again.", details |-> message]

\* (a variant without the test of line 767)
analyzeCurrentPageAnyLength(doc, cached) ==
    Bind(extractPageContent(doc), LAMBDA content :
        IF content.state = "thrown"
        THEN [ret |-> AnalysisFailed(content.ret), analysisResults |-> cached]
        ELSE Bind(analyzeText(String(content.ret.fullText), content.ret.paragraphs),
                  LAMBDA outcome :
                IF outcome.state = "thrown"
                THEN [ret |-> AnalysisFailed(outcome.ret), analysisResults |-> cached]
                ELSE Bind(outcome.ret @@ [elements   |-> content.ret.elements,
                                          paragraphs |-> content.ret.paragraphs],
                          LAMBDA results : [ret |-> results, analysisResults |-> results])))

\* lines 763-790: what is returned, and the value analysisResults has afterwards
\* (cached is its value before)
analyzeCurrentPage(doc, cached) ==
    Bind(extractPageContent(doc), LAMBDA content :
        IF content.state = "thrown"
        THEN [ret |-> AnalysisFailed(content.ret), analysisResults |-> cached]
        ELSE IF Len(content.ret.fullText) < 50
        THEN [ret |-> NotEnoughText, analysisResults |-> cached]
        ELSE Bind(analyzeText(String(content.ret.fullText), content.ret.paragraphs),
                  LAMBDA outcome :
                IF outcome.state = "thrown"
                THEN [ret |-> AnalysisFailed(outcome.ret), analysisResults |-> cached]
                ELSE Bind(outcome.ret @@ [elements   |-> content.ret.elements,
                                          paragraphs |-> content.ret.paragraphs],
                          LAMBDA results : [ret |-> results, analysisResults |-> results])))

\* { ...results } without elements (lines 912-913, 939-940)
Serializable(results) == [f \in (DOMAIN results) \ {"elements"} |-> results[f]]

(* The handlers below work on the script's state s, a record of the        *)
(* variables, and give the state afterwards.                               *)

\* elements[i] for an index i counted from 0: the element, or 0 when undefined
ElementAt(elements, i) == IF i >= 0 /\ i < Len(elements) THEN elements[i + 1] ELSE 0

\* the element an issue of the given list is highlighted on (lines 821, 829)
IssueElement(results, type, issue) ==
    IF type = "denseParagraphs" THEN ElementAt(results.elements, issue.index)
    ELSE ElementAt(results.elements, issue.paragraphIndex)

\* classList.add on the elements of a set
AddClass(doc, els, class) ==
    [doc EXCEPT !.textElements =
        [i \in 1..Len(doc.textElements) |->
            IF i \in els
            THEN [doc.textElements[i] EXCEPT !.classList = @ \cup {class}]
            ELSE doc.textElements[i]]]

\* (a variant whose endIndex is not held to the length of the list)
highlightBatchPastEnd(s, type, startIndex, count) ==
    IF s.analysisResults = null THEN [s |-> s, ret |-> undefined]
    ELSE IF type \notin DOMAIN s.analysisResults.issues THEN [s |-> s, ret |-> [hasMore |-> FALSE]]
    ELSE LET targetIssues == s.analysisResults.issues[type]
             endIndex == startIndex + count
             batch == SubSeq(targetIssues, startIndex + 1, Min(endIndex, Len(targetIssues)))
             els == {IssueElement(s.analysisResults, type, batch[k]) : k \in 1..Len(batch)} \ {0}
         IN  [s   |-> [s EXCEPT
                          !.document = AddClass(s.document, els,
                                                IF type = "denseParagraphs"
                                                THEN "readscore-dense-paragraph"
                                                ELSE "readscore-complex-sentence"),
                          !.originalHTML = @ \cup els,
                          !.highlightOffsets = [@ EXCEPT ![type] = endIndex],
                          !.isHighlightingEnabled = TRUE,
                          !.batches = Append(@, [type |-> type, startIndex |-> startIndex,
                                                 endIndex |-> endIndex])],
              ret |-> [type       |-> type,
                       nextOffset |-> endIndex,
                       total      |-> Len(targetIssues),
                       hasMore    |-> endIndex < Len(targetIssues)]]

\* lines 807-852
highlightBatch(s, type, startIndex, count) ==
    IF s.analysisResults = null THEN [s |-> s, ret |-> undefined]
    ELSE IF type \notin DOMAIN s.analysisResults.issues THEN [s |-> s, ret |-> [hasMore |-> FALSE]]
    ELSE LET targetIssues == s.analysisResults.issues[type]
             endIndex == Min(startIndex + count, Len(targetIssues))
             batch == SubSeq(targetIssues, startIndex + 1, endIndex)
             els == {IssueElement(s.analysisResults, type, batch[k]) : k \in 1..Len(batch)} \ {0}
         IN  [s   |-> [s EXCEPT
                          !.document = AddClass(s.document, els,
                                                IF type = "denseParagraphs"
                                                THEN "readscore-dense-paragraph"
                                                ELSE "readscore-complex-sentence"),
                          !.originalHTML = @ \cup els,
                          !.highlightOffsets = [@ EXCEPT ![type] = endIndex],
                          !.isHighlightingEnabled = TRUE,
                          !.batches = Append(@, [type |-> type, startIndex |-> startIndex,
                                                 endIndex |-> endIndex])],
              ret |-> [type       |-> type,
                       nextOffset |-> endIndex,
                       total      |-> Len(targetIssues),
                       hasMore    |-> endIndex < Len(targetIssues)]]

\* lines 857-866
applyHighlighting(s) ==
    LET reset == [s EXCEPT !.highlightOffsets = [complexSentences |-> 0, denseParagraphs |-> 0],
                           !.batches = <<>>]
        first == highlightBatch(reset, "complexSentences", 0, HIGHLIGHT_BATCH_SIZE).s
        second == highlightBatch(first, "denseParagraphs", 0, HIGHLIGHT_BATCH_SIZE).s
    IN  [second EXCEPT !.isHighlightingEnabled = TRUE]

\* (a variant without the cleanup of lines 886-889: the stored elements lose
\* the class readscore-dense-paragraph only)
removeHighlightingStoredOnly(s) ==
    [s EXCEPT !.document.textElements =
                  [i \in 1..Len(s.document.textElements) |->
                      IF i \in s.originalHTML
                      THEN [s.document.textElements[i] EXCEPT
                               !.classList = @ \ {"readscore-dense-paragraph"}]
                      ELSE s.document.textElements[i]],
              !.originalHTML = {},
              !.highlightOffsets = [complexSentences |-> 0, denseParagraphs |-> 0],
              !.batches = <<>>,
              !.isHighlightingEnabled = FALSE]

\* lines 871-892: every element of the page loses both classes
removeHighlighting(s) ==
    [s EXCEPT !.document.textElements =
                  [i \in 1..Len(s.document.textElements) |->
                      [s.document.textElements[i] EXCEPT !.classList = {}]],
              !.originalHTML = {},
              !.highlightOffsets = [complexSentences |-> 0, denseParagraphs |-> 0],
              !.batches = <<>>,
              !.isHighlightingEnabled = FALSE]

\* lines 898-904
toggleHighlighting(s, enable) == IF enable THEN applyHighlighting(s) ELSE removeHighlighting(s)

\* lines 957-980: the element scrolled into view, 0 if none is
scrollTarget(s, issueType, issueIndex) ==
    IF s.analysisResults = null THEN 0
    ELSE LET issues == s.analysisResults.issues
         IN  IF /\ issueType = "complexSentence"
                /\ issueIndex >= 0 /\ issueIndex < Len(issues.complexSentences)
             THEN ElementAt(s.analysisResults.elements,
                            issues.complexSentences[issueIndex + 1].paragraphIndex)
             ELSE IF /\ issueType = "denseParagraph"
                     /\ issueIndex >= 0 /\ issueIndex < Len(issues.denseParagraphs)
             THEN ElementAt(s.analysisResults.elements,
                            issues.denseParagraphs[issueIndex + 1].index)
             ELSE 0

(* The listener of lines 907-989 on one message: the state afterwards and  *)
(* the response sent.  A message has an action and, as the action needs,   *)
(* enabled, type, issueType and issueIndex.                                *)
onMessage(s, message) ==
    CASE message.action = "analyze" ->
            Bind(analyzeCurrentPage(s.document, s.analysisResults), LAMBDA done :
                [s   |-> [s EXCEPT !.analysisResults = done.analysisResults],
                 ret |-> Serializable(done.ret)])
      [] message.action = "toggleHighlight" ->
            [s   |-> toggleHighlighting(s, message.enabled),
             ret |-> [success |-> TRUE, enabled |-> message.enabled]]
      [] message.action = "loadMoreHighlights" ->
            \* highlightOffsets[type] is undefined for another type, and is then not used
            highlightBatch(s, message.type,
                           IF message.type \in DOMAIN s.highlightOffsets
                           THEN s.highlightOffsets[message.type] ELSE 0,
                           HIGHLIGHT_BATCH_SIZE)
      [] message.action = "getStatus" ->
            [s   |-> s,
             ret |-> [hasResults |-> s.analysisResults # null,
                      isHighlighting |-> s.isHighlightingEnabled]]
      [] message.action = "getCachedResults" ->
            [s   |-> s,
             ret |-> [hasResults |-> s.analysisResults # null,
                      results |-> IF s.analysisResults # null
                                  THEN Serializable(s.analysisResults) ELSE null,
                      isHighlighting |-> s.isHighlightingEnabled]]
      [] message.action = "scrollToIssue" ->
            LET targetElement == scrollTarget(s, message.issueType, message.issueIndex)
            IN  [s   |-> IF targetElement # 0 THEN [s EXCEPT !.scrolledIntoView = targetElement]
                         ELSE s,
                 ret |-> [success |-> TRUE]]
      [] OTHER -> [s |-> s, ret |-> [error |-> "Unknown action"]]

-----------------------------------------------------------------------------
(* The state after the script is loaded: the tables as written.  A call is *)
(* a record of the function's name, its arguments, and, once it has run,   *)
(* its outcome.                                                            *)

Pending(fn, args) == [fn |-> fn, args |-> args, state |-> "pending", ret |-> <<>>]

Returned(c, value) == [c EXCEPT !.state = "returned", !.ret = value]

InitTables ==
    /\ READING_SPEEDS = InitREADING_SPEEDS
    /\ THRESHOLDS = InitTHRESHOLDS
    /\ LABELS = InitLABELS
    /\ SYLLABLE_OVERRIDES = InitSYLLABLE_OVERRIDES
    /\ COMMON_POLYSYLLABIC = InitCOMMON_POLYSYLLABIC
    /\ ABBREVIATIONS = InitABBREVIATIONS

\* lines 669-682
InitContentScript ==
    /\ isHighlightingEnabled = FALSE
    /\ analysisResults = null
    /\ originalHTML = {}
    /\ highlightOffsets = [complexSentences |-> 0, denseParagraphs |-> 0]
    /\ scrolledIntoView = 0
    /\ batches = <<>>

\* a page without text elements
BlankDocument == [contentArea |-> TRUE, textElements |-> <<>>]

\* the script's state as one record
ScriptState ==
    [document              |-> document,
     isHighlightingEnabled |-> isHighlightingEnabled,
     analysisResults       |-> analysisResults,
     originalHTML          |-> originalHTML,
     highlightOffsets      |-> highlightOffsets,
     scrolledIntoView      |-> scrolledIntoView,
     batches               |-> batches]

\* the popup sends a message, the listener handles it and responds
Receive(message) ==
    /\ inbox > 0
    /\ inbox' = inbox - 1
    /\ \E done \in {onMessage(ScriptState, message)} :
          /\ call' = [fn |-> "onMessage", args |-> <<message>>,
                      state |-> "returned", ret |-> done.ret]
          /\ document' = done.s.document
          /\ isHighlightingEnabled' = done.s.isHighlightingEnabled
          /\ analysisResults' = done.s.analysisResults
          /\ originalHTML' = done.s.originalHTML
          /\ highlightOffsets' = done.s.highlightOffsets
          /\ scrolledIntoView' = done.s.scrolledIntoView
          /\ batches' = done.s.batches
    /\ UNCHANGED <<tables, seen>>

-----------------------------------------------------------------------------
(* Calls of the pure functions, on arguments drawn from bounded sets.      *)

\* word counts around every multiple of 50 up to MaxWordCount
WordCounts == {w \in 0..MaxWordCount : w % 50 \in {0, 1, 49}}

Grades == {Number(t) : t \in 0..MaxGradeTenths} \cup {NaN, null}

AvgLengths == {Ratio(n, 1) : n \in {0, 14, 15, 22, 23}} \cup {Ratio(29, 2)}

ComplexRatios == {Ratio(n, 100) : n \in {0, 8, 9, 15, 16}}

InitClassifyReadability ==
    /\ InitTables
    /\ InitContentScript
    /\ document = BlankDocument /\ inbox = 0
    /\ seen = <<>>
    /\ \E a \in AvgLengths, c \in ComplexRatios, g \in Grades, w \in WordCounts :
            call = Pending("classifyReadability", <<a, c, g, w>>)

RunClassifyReadability ==
    /\ call.fn = "classifyReadability" /\ call.state = "pending"
    /\ call' = Returned(call, classifyReadability(call.args[1], call.args[2],
                                                  call.args[3], call.args[4]))
    /\ UNCHANGED <<tables, seen, page>>

FKInputs ==
    {<<w, s, y>> \in (0..MaxFKWords) \X (0..MaxFKSentences) \X (0..MaxFKSyllablesPerWord * MaxFKWords) :
        y <= MaxFKSyllablesPerWord * w}
    \cup {<<150, 10, 220>>, <<150, 10, 150>>, <<300, 10, 600>>}

InitCalculateFleschKincaid ==
    /\ InitTables
    /\ InitContentScript
    /\ document = BlankDocument /\ inbox = 0
    /\ seen = <<>>
    /\ \E in \in FKInputs :
            call = Pending("calculateFleschKincaid",
                           <<in[1], in[2], [kind |-> "number", v |-> in[3]]>>)

RunCalculateFleschKincaid ==
    /\ call.fn = "calculateFleschKincaid" /\ call.state = "pending"
    /\ call' = Returned(call, calculateFleschKincaid(call.args[1], call.args[2], call.args[3]))
    /\ UNCHANGED <<tables, seen, page>>

Levels == {"Easy", "Medium", "Hard", "easy", "HARD", "N/A", "Unknown", ""}

InitCalculateReadingTime ==
    /\ InitTables
    /\ InitContentScript
    /\ document = BlankDocument /\ inbox = 0
    /\ seen = <<>>
    /\ \E w \in 0..MaxWordCount, level \in Levels :
            call = Pending("calculateReadingTime", <<w, level>>)

RunCalculateReadingTime ==
    /\ call.fn = "calculateReadingTime" /\ call.state = "pending"
    /\ call' = Returned(call, calculateReadingTime(call.args[1], call.args[2]))
    /\ UNCHANGED <<tables, seen, page>>

InitClassifySentenceQuality ==
    /\ InitTables
    /\ InitContentScript
    /\ document = BlankDocument /\ inbox = 0
    /\ seen = <<>>
    /\ \E n \in 0..MaxAvgNum, d \in 1..MaxAvgDen :
            call = Pending("classifySentenceQuality", <<Ratio(n, d)>>)

RunClassifySentenceQuality ==
    /\ call.fn = "classifySentenceQuality" /\ call.state = "pending"
    /\ call' = Returned(call, classifySentenceQuality(call.args[1]))
    /\ UNCHANGED <<tables, seen, page>>

(* Calls of analyzeText.  The texts are sentences repeated (so that there *)
(* are texts on both sides of 100 words for every kind of sentence), and   *)
(* values that are not strings.                                            *)

\* s repeated n times
RECURSIVE Repeat(_, _)
Repeat(s, n) ==
    IF n = 0 THEN ""
    ELSE Bind(Repeat(s, n \div 2), LAMBDA half :
            half \o half \o (IF n % 2 = 1 THEN s ELSE ""))

ComplexParagraph ==
    "However, the committee decided to postpone the meeting because several members "
    \o "were absent, which meant that the final vote could not take place until later. "

ShortSentences ==
    {"We go up. ",
     "The cat sat on the mat. ",
     "The committee considered international cooperation. ",
     "so we go on and on and on ",
     "The constructor is here. ",
     " \n\t"}

LongSentences ==
    {"The small dog ran over the green hill and then sat down by the very old tree in the garden. ",
     "Dr. Smith paid $19.99 at https://shop.example.com on Monday... Was it well-known? ",
     "We go up now. It is so. The cat sat on the mat. ",
     ComplexParagraph}

\* 20 sentences of 8 words and one of 7: 167 words in 21 sentences
NearlyEightWords == Repeat("The cat sat on the mat by now. ", 20) \o "We go up and on and on. "

Texts ==
    {Repeat(s, n) : s \in ShortSentences, n \in {0, 1, 2, MaxRepeat \div 2, MaxRepeat}}
    \cup {Repeat(s, n) : s \in LongSentences, n \in 1..MaxLongRepeat}
    \cup {NearlyEightWords}

NonStrings ==
    {Value("null", "null"), Value("undefined", "undefined"), Value("object", "{}"),
     Value("number", "0"), Value("number", "5"),
     Value("boolean", "false"), Value("boolean", "true")}

TextValues == {String(t) : t \in Texts} \cup NonStrings

ParagraphLists == {<<>>, <<"We go up. It is so.", ComplexParagraph>>}

InitAnalyzeText ==
    /\ InitTables
    /\ InitContentScript
    /\ document = BlankDocument /\ inbox = 0
    /\ seen = <<>>
    /\ \E text \in TextValues, paragraphs \in ParagraphLists :
            call = Pending("analyzeText", <<text, paragraphs>>)

\* (a variant of the call that leaves a changed reading speed behind)
RunAnalyzeTextWritingSpeeds ==
    /\ call.fn = "analyzeText" /\ call.state = "pending"
    /\ \E outcome \in {analyzeText(call.args[1], call.args[2])} :
           /\ call' = [call EXCEPT !.state = outcome.state, !.ret = outcome.ret]
           /\ seen' = IF call.args \in DOMAIN seen
                      THEN [seen EXCEPT ![call.args] =
                               [calls    |-> Min(@.calls + 1, MaxCalls),
                                outcomes |-> @.outcomes \cup {outcome}]]
                      ELSE seen
    /\ READING_SPEEDS' = [READING_SPEEDS EXCEPT !.MEDIUM = READING_SPEEDS.HARD]
    /\ UNCHANGED <<THRESHOLDS, LABELS, SYLLABLE_OVERRIDES, COMMON_POLYSYLLABIC,
                   ABBREVIATIONS, page>>

\* one call of analyzeText, from entry to the return or the throw; it writes no table
RunAnalyzeText ==
    /\ call.fn = "analyzeText" /\ call.state = "pending"
    /\ \E outcome \in {analyzeText(call.args[1], call.args[2])} :
           /\ call' = [call EXCEPT !.state = outcome.state, !.ret = outcome.ret]
           /\ seen' = IF call.args \in DOMAIN seen
                      THEN [seen EXCEPT ![call.args] =
                               [calls    |-> Min(@.calls + 1, MaxCalls),
                                outcomes |-> @.outcomes \cup {outcome}]]
                      ELSE seen
    /\ UNCHANGED <<tables, page>>

(* Calls of analyzeText one after another, on a few tracked argument pairs *)
(* in every order: a caller may call again once the last call is over.     *)
TrackedArguments ==
    {<<String(""), <<>>>>,
     <<String("The cat sat on the mat. We go up."), <<>>>>,
     <<String("We go up."), <<"We go up. It is so.">>>>,
     <<Value("number", "5"), <<>>>>}

InitRepeatedCalls ==
    /\ InitTables
    /\ InitContentScript
    /\ document = BlankDocument /\ inbox = 0
    /\ seen = [a \in TrackedArguments |-> [calls |-> 0, outcomes |-> {}]]
    /\ \E a \in TrackedArguments : call = Pending("analyzeText", a)

CallAnalyzeText ==
    /\ call.fn = "analyzeText" /\ call.state # "pending"
    /\ \E a \in TrackedArguments : call' = Pending("analyzeText", a)
    /\ UNCHANGED <<tables, seen, page>>

(* Calls of identifyComplexSentences.  A sentence of a given number of     *)
(* words and clauses is made of the word "go", the clauses being marked by *)
(* semicolons, by ", because" or by "that" (which are words as well).      *)
ClauseStyles == {"semicolon", "connective", "that"}

SentencePiece(style, clauses, words, k) ==
    LET marked == k <= 2 * (clauses - 1)
        word == IF k = 1 THEN "Go"
                ELSE IF style = "connective" /\ marked /\ k % 2 = 0 THEN "because"
                ELSE IF style = "that" /\ marked /\ k % 2 = 0 THEN "that"
                ELSE "go"
        mark == IF style = "semicolon" /\ k < clauses THEN ";"
                ELSE IF style = "connective" /\ marked /\ k % 2 = 1 THEN ","
                ELSE ""
    IN  word \o mark \o (IF k = words THEN "." ELSE " ")

Sentence(style, clauses, words) ==
    Concat([k \in 1..words |-> SentencePiece(style, clauses, words, k)], 1, words)

SentenceWords == {15} \cup 19..MaxSentenceWords

TwoClauses25Words == Sentence("connective", 2, 25)
FourClauses15Words == Sentence("semicolon", 4, 15)
ThreeClauses22Words == Sentence("that", 3, 22)

ComplexSentenceInputs ==
    {<<Sentence(style, c, w)>> : style \in ClauseStyles, c \in 1..MaxClauses, w \in SentenceWords}
    \cup {<<>>,
          <<"We go up. It is so.", ComplexParagraph>>,
          <<"We go up. " \o FourClauses15Words \o " " \o ThreeClauses22Words,
            TwoClauses25Words \o " " \o ThreeClauses22Words \o " We go on now.",
            " \n", ThreeClauses22Words>>}

InitIdentifyComplexSentences ==
    /\ InitTables
    /\ InitContentScript
    /\ document = BlankDocument /\ inbox = 0
    /\ seen = <<>>
    /\ \E paragraphs \in ComplexSentenceInputs :
            call = Pending("identifyComplexSentences", <<paragraphs>>)

RunIdentifyComplexSentences ==
    /\ call.fn = "identifyComplexSentences" /\ call.state = "pending"
    /\ \E value \in {identifyComplexSentences(call.args[1])} : call' = Returned(call, value)
    /\ UNCHANGED <<tables, seen, page>>

Spec == InitAnalyzeText /\ [][RunAnalyzeText]_vars

SpecRepeatedCalls == InitRepeatedCalls /\ [][RunAnalyzeText \/ CallAnalyzeText]_vars

SpecComplexSentences == InitIdentifyComplexSentences /\ [][RunIdentifyComplexSentences]_vars

SpecClassifyReadability == InitClassifyReadability /\ [][RunClassifyReadability]_vars

SpecFleschKincaid == InitCalculateFleschKincaid /\ [][RunCalculateFleschKincaid]_vars

SpecReadingTime == InitCalculateReadingTime /\ [][RunCalculateReadingTime]_vars

SpecSentenceQuality == InitClassifySentenceQuality /\ [][RunClassifySentenceQuality]_vars

(* countSyllables on single words: words of the override table, short      *)
(* words, words with silent endings, tokens that keep a hyphen (extractWords *)
(* leaves the hyphen of a token that has an apostrophe), and every token   *)
(* extractWords gives for a few texts.                                     *)
WordTexts ==
    {"The constructor is here, and every well-known rock-'n'-roll band played.",
     "It's a don't--stop, o'clock-ish jack-o'-lantern; the co-op re-entered.",
     "Unfortunately the committee considered international cooperation carefully."}

WordsOf(text) == Bind(extractWords(text), LAMBDA words : {words[k] : k \in 1..Len(words)})

SyllableWords ==
    {"a", "an", "I", "ox", "we", "the", "cat", "Tree", "table", "little", "free",
     "pie", "make", "makes", "boxes", "wishes", "watches", "jumped", "wanted",
     "added", "red", "yes", "rhythm", "yellow", "crypt", "queue", "business",
     "Every", "chocolate", "unfortunately", "especially", "beautiful",
     "readability", "international", "strengths", "hmm", "nth", "be", "bee",
     "areas", "idea", "create", "constructor", " cat ", "mother-in-law",
     "well-known", "don't--stop", "rock-'n'-roll", "o'clock-", "e-mail"}
    \cup UNION {WordsOf(text) : text \in WordTexts}

InitCountSyllables ==
    /\ InitTables
    /\ InitContentScript
    /\ document = BlankDocument /\ inbox = 0
    /\ seen = <<>>
    /\ \E word \in SyllableWords : call = Pending("countSyllables", <<word>>)

RunCountSyllables ==
    /\ call.fn = "countSyllables" /\ call.state = "pending"
    /\ \E syllables \in {countSyllables(call.args[1])} :
           call' = Returned(call, syllables)
    /\ UNCHANGED <<tables, seen, page>>

SpecCountSyllables == InitCountSyllables /\ [][RunCountSyllables]_vars

(* identifyDenseParagraphs on paragraphs of a given number of words and of *)
(* sentences: the sentences are "We go go ... go." with at least 3 words   *)
(* each; a paragraph of no sentence is made of two-word pieces, which      *)
(* extractSentences drops.                                                 *)
PlainSentence(words) == "We" \o Repeat(" go", words - 1) \o ". "

\* `words` words in `sentences` sentences (sentences >= 1, words >= 3 * sentences)
Paragraph(words, sentences) ==
    Repeat(PlainSentence(words \div sentences), sentences - 1)
    \o PlainSentence(words - (words \div sentences) * (sentences - 1))

\* `words` words (an even number) and no sentence
ParagraphOfPieces(words) == Repeat("We go. ", words \div 2)

ParagraphWords == {79, 80, 90, 99, 100, 101, 149, 150, 160, MaxParagraphWords}

Paragraphs160Words == {Paragraph(160, sentences) : sentences \in 1..MaxParagraphSentences}
                      \cup {ParagraphOfPieces(160)}

Paragraph90Words2Sentences == Paragraph(90, 2)

Paragraph90Words5Sentences == Paragraph(90, 5)

DenseParagraphInputs ==
    {<<Paragraph(words, sentences)>> :
        words \in ParagraphWords, sentences \in 1..MaxParagraphSentences}
    \cup {<<ParagraphOfPieces(words)>> : words \in {80, 100, 148, 150, 160}}
    \cup {<<>>,
          <<"We go up. It is so.">>,
          <<Paragraph(160, 1), Paragraph(90, 5), Paragraph(160, 1)>>,
          <<Paragraph(90, 5), Paragraph(90, 2)>>,
          <<Paragraph(90, 2), Paragraph(100, 4), "We go up. It is so.", Paragraph(150, 3)>>,
          <<Paragraph(99, 4), Paragraph(79, 1)>>}

InitIdentifyDenseParagraphs ==
    /\ InitTables
    /\ InitContentScript
    /\ document = BlankDocument /\ inbox = 0
    /\ seen = <<>>
    /\ \E paragraphs \in DenseParagraphInputs :
            call = Pending("identifyDenseParagraphs", <<paragraphs>>)

RunIdentifyDenseParagraphs ==
    /\ call.fn = "identifyDenseParagraphs" /\ call.state = "pending"
    /\ \E issues \in {identifyDenseParagraphs(call.args[1])} :
           call' = Returned(call, issues)
    /\ UNCHANGED <<tables, seen, page>>

SpecDenseParagraphs == InitIdentifyDenseParagraphs /\ [][RunIdentifyDenseParagraphs]_vars

(* The content script on a page.  No call has been made when the script is *)
(* loaded.                                                                *)
NoCall == [fn |-> "none", args |-> <<>>, state |-> "idle", ret |-> <<>>]

(* Pages for analyzeCurrentPage: every list of up to MaxPageElements       *)
(* elements of a pool (texts of 10 and 11 characters, of 24 and 25         *)
(* characters after trimming, so that full texts of 49 and of 50           *)
(* characters occur, white space, an element in an excluded area, a        *)
(* sentence with three clauses), a page with a dense paragraph, and a page *)
(* without content area.                                                   *)
ElementPool ==
    {Element("Ten chars!", FALSE),
     Element("Eleven char", FALSE),
     Element("  The cat sat on the mats. \n", FALSE),
     Element("We go up and so we go on!", FALSE),
     Element(" \n\t ", FALSE),
     Element("The navigation of the site is here and it is not a part of the text.", TRUE),
     Element(ThreeClauses22Words, FALSE)}

RECURSIVE ElementLists(_)
ElementLists(n) ==
    IF n = 0 THEN {<<>>}
    ELSE ElementLists(n - 1)
         \cup {Append(list, el) : list \in ElementLists(n - 1), el \in ElementPool}

IssuesPage ==
    [contentArea  |-> TRUE,
     textElements |-> <<Element("Ten chars!", FALSE),
                        Element("  We go up. It is so.  ", FALSE),
                        Element(ComplexParagraph, TRUE),
                        Element(ThreeClauses22Words \o " ", FALSE),
                        Element(Paragraph(90, 2), FALSE),
                        Element(" \n" \o ThreeClauses22Words \o " We go on now.", FALSE)>>]

PlainPage ==
    [contentArea  |-> TRUE,
     textElements |-> <<Element("  The cat sat on the mats. \n", FALSE),
                        Element("We go up and so we go on!", FALSE)>>]

NoContentArea == [contentArea |-> FALSE, textElements |-> <<>>]

PageDocuments ==
    {[contentArea |-> TRUE, textElements |-> list] : list \in ElementLists(MaxPageElements)}
    \cup {IssuesPage, NoContentArea}

OnAnalyze == Receive([action |-> "analyze"])

OnToggleHighlight ==
    \E enabled \in BOOLEAN : Receive([action |-> "toggleHighlight", enabled |-> enabled])

\* "longSentences" is the type the comment of line 803 names; no list of issues has that name
OnLoadMoreHighlights ==
    \E type \in {"complexSentences", "denseParagraphs", "longSentences"} :
        Receive([action |-> "loadMoreHighlights", type |-> type])

OnGetStatus == Receive([action |-> "getStatus"])

OnGetCachedResults == Receive([action |-> "getCachedResults"])

OnScrollToIssue ==
    \E issueType \in {"complexSentence", "denseParagraph"}, issueIndex \in 0..MaxIssueIndex :
        Receive([action |-> "scrollToIssue", issueType |-> issueType, issueIndex |-> issueIndex])

OnUnknownAction == Receive([action |-> "reset"])

\* a call of extractPageContent on the page as it is
CallExtractPageContent ==
    /\ inbox > 0
    /\ inbox' = inbox - 1
    /\ \E content \in {extractPageContent(document)} :
          call' = [fn |-> "extractPageContent", args |-> <<>>,
                   state |-> content.state, ret |-> content.ret]
    /\ UNCHANGED <<tables, seen, document, isHighlightingEnabled, analysisResults,
                   originalHTML, highlightOffsets, scrolledIntoView, batches>>

\* the script loaded in a page, one message 'analyze' to come
InitAnalyzeCurrentPage ==
    /\ InitTables
    /\ InitContentScript
    /\ seen = <<>>
    /\ call = NoCall
    /\ document \in PageDocuments
    /\ inbox = 1

SpecAnalyzeCurrentPage == InitAnalyzeCurrentPage /\ [][OnAnalyze]_vars

\* the script loaded in a page, MaxPageMessages messages to come
InitPage ==
    /\ InitTables
    /\ InitContentScript
    /\ seen = <<>>
    /\ call = NoCall
    /\ document \in {IssuesPage, PlainPage, NoContentArea}
    /\ inbox = MaxPageMessages

NextPage ==
    \/ OnAnalyze
    \/ OnToggleHighlight
    \/ OnLoadMoreHighlights
    \/ OnGetStatus
    \/ OnGetCachedResults
    \/ OnScrollToIssue
    \/ OnUnknownAction
    \/ CallExtractPageContent

SpecPage == InitPage /\ [][NextPage]_vars

(* Highlighting in batches, on cached results with given numbers of        *)
(* issues.  Of the cached results only what highlightBatch and the         *)
(* listener read is kept: the two lists of issues with their indices, and  *)
(* the elements; the page has one element for each paragraph.              *)
IssueTotals ==
    {0, 1, HIGHLIGHT_BATCH_SIZE - 1, HIGHLIGHT_BATCH_SIZE, HIGHLIGHT_BATCH_SIZE + 1,
     2 * HIGHLIGHT_BATCH_SIZE, MaxIssues}

CachedResults(complexTotal, denseTotal) ==
    [issues     |-> [complexSentences |->
                        [k \in 1..complexTotal |->
                            [index |-> 2 * (k - 1), paragraphIndex |-> k - 1, isComplex |-> TRUE]],
                     denseParagraphs |->
                        [k \in 1..denseTotal |-> [index |-> k - 1, isDense |-> TRUE]]],
     issueCount |-> complexTotal + denseTotal,
     elements   |-> [i \in 1..Max(1, Max(complexTotal, denseTotal)) |-> i]]

PageOf(results) ==
    [contentArea  |-> TRUE,
     textElements |-> [i \in 1..Len(results.elements) |-> Element("We go up. It is so.", FALSE)]]

InitBatches ==
    /\ InitTables
    /\ seen = <<>>
    /\ call = NoCall
    /\ isHighlightingEnabled = FALSE
    /\ originalHTML = {}
    /\ highlightOffsets = [complexSentences |-> 0, denseParagraphs |-> 0]
    /\ scrolledIntoView = 0
    /\ batches = <<>>
    /\ \E complexTotal \in IssueTotals, denseTotal \in {0, HIGHLIGHT_BATCH_SIZE + 1, MaxIssues} :
          /\ analysisResults = CachedResults(complexTotal, denseTotal)
          /\ document = PageOf(CachedResults(complexTotal, denseTotal))
    /\ inbox = MaxBatchMessages

SpecBatches == InitBatches /\ [][OnToggleHighlight \/ OnLoadMoreHighlights]_vars

(* extractWords on short texts: the empty text, white space, and every     *)
(* text of one or two raw tokens of a pool (plain words, contractions,     *)
(* hyphenated compounds, tokens that have both a hyphen and an apostrophe, *)
(* tokens with digits or an underscore within, numbers with and without a  *)
(* unit, markup, an address and a link).                                   *)
RawTokens ==
    {"Hello", "it's", "Well-Known", "rock-'n'-roll", "abc123", "snake_case",
     "42", "3.5kg", "a", "x9", "--", "'tis", "O'Neil,", "(e-mail)", "9lives",
     "_private", "U.S.A.", "<b>bold</b>", "user@example.com", "https://x.io/a-b",
     "100%", "mother-in-law's", "B2B", "-ish"}

BlankTexts == {"", " ", " \t\n "}

WordInputs ==
    BlankTexts \cup RawTokens
    \cup {a \o " " \o b : a \in RawTokens, b \in {"Hello", "42", "--", "O'Neil,", "x9"}}
    \cup {a \o b : a \in {"Hello", "42", "x9"}, b \in {"-7", "_", "'s", "...", "%"}}

InitExtractWords ==
    /\ InitTables
    /\ InitContentScript
    /\ document = BlankDocument /\ inbox = 0
    /\ seen = <<>>
    /\ \E text \in WordInputs : call = Pending("extractWords", <<text>>)

RunExtractWords ==
    /\ call.fn = "extractWords" /\ call.state = "pending"
    /\ \E words \in {extractWords(call.args[1])} :
           call' = Returned(call, words)
    /\ UNCHANGED <<tables, seen, page>>

SpecExtractWords == InitExtractWords /\ [][RunExtractWords]_vars

(* extractSentences on two-part texts: a first part, a joint and a second  *)
(* part.  The first parts end in a plain word, a listed abbreviation, a    *)
(* single letter, a price, a decimal, a number, a second list number, a    *)
(* link; the joints are the terminal marks with white space, a run of      *)
(* periods, a comma; the second parts start with a capital, a small        *)
(* letter, a quote, a bracket or a digit.  With them the two sample        *)
(* sentences and blank texts.                                              *)
FirstParts ==
    {"We go up now", "He then said no", "It did cost $5", "It did cost $19.99",
     "We all saw item 3", "See the items 1. 2", "We met the Dr", "Wait for it..",
     "It is in the U.S", "Oh", "Go read https://x.io"}

Joints == {". ", "! ", "? ", ".  ", "... ", ".\n", ".", ", "}

SecondParts ==
    {"Then we go on.", "then we go on.", "\"Yes we can.\"", "(It is so.)",
     "2 cats sat here.", "No.", "It was cheap."}

DrSmith == "Dr. Smith went to Washington, D.C. on Monday."

Paid1999 == "I paid $19.99 for the item. It was cheap."

SentenceInputs ==
    BlankTexts \cup {DrSmith, Paid1999}
    \cup {first \o joint \o second :
             first \in FirstParts, joint \in Joints, second \in SecondParts}

InitExtractSentences ==
    /\ InitTables
    /\ InitContentScript
    /\ document = BlankDocument /\ inbox = 0
    /\ seen = <<>>
    /\ \E text \in SentenceInputs : call = Pending("extractSentences", <<text>>)

RunExtractSentences ==
    /\ call.fn = "extractSentences" /\ call.state = "pending"
    /\ \E sentences \in {extractSentences(call.args[1])} :
           call' = Returned(call, sentences)
    /\ UNCHANGED <<tables, seen, page>>

SpecExtractSentences == InitExtractSentences /\ [][RunExtractSentences]_vars

(* countClauses on sentences of an opener, a link and a closer: openers    *)
(* that start with a connective (in small letters, in capitals, after a    *)
(* quote, as the start of a longer word) or with "that"; links with a      *)
(* connective after a comma or a semicolon (with and without white space), *)
(* after a colon, after no punctuation, with "that" after "so", "such" and *)
(* "also"; closers with up to five "that".                                 *)
Openers ==
    {"We go", "However we go", "If we go", "That we go", "Whoever we go",
     "\"If we go", "THEREFORE we go", "So that we go"}

Links ==
    {" and ", ", which ", " which ", "; while ", ": when ", ",who ", ",  Because ",
     " so that ", " such that ", " also that ", " that ", ", that ", ", whichever ",
     "; ", ",\tunless ", " so\tthat ", " such  that "}

Closers ==
    {"we stay.", "that that that that is.", "it is so that; it is such that.",
     "we stay, if that helps, unless it, that, fails.", "that's that, though."}

ClauseInputs ==
    {opener \o link \o closer : opener \in Openers, link \in Links, closer \in Closers}

InitCountClauses ==
    /\ InitTables
    /\ InitContentScript
    /\ document = BlankDocument /\ inbox = 0
    /\ seen = <<>>
    /\ \E sentence \in ClauseInputs : call = Pending("countClauses", <<sentence>>)

RunCountClauses ==
    /\ call.fn = "countClauses" /\ call.state = "pending"
    /\ \E clauseCount \in {countClauses(call.args[1])} :
           call' = Returned(call, clauseCount)
    /\ UNCHANGED <<tables, seen, page>>

SpecCountClauses == InitCountClauses /\ [][RunCountClauses]_vars

(* Analyses of a page whose content changes between the messages: a page   *)
(* of 50 characters of text, one of 51, one of 24 (too little to analyze)  *)
(* and one without content area (the analysis fails).                      *)
TooShortPage ==
    [contentArea  |-> TRUE,
     textElements |-> <<Element("  The cat sat on the mats. \n", FALSE)>>]

OtherPage ==
    [contentArea  |-> TRUE,
     textElements |-> <<Element("We go up and so we go on!", FALSE),
                        Element("We go up and so we go on!", FALSE)>>]

ChangingPages == {PlainPage, OtherPage, TooShortPage, NoContentArea}

\* the page replaces its content; the script's variables stay as they are
PageChanges ==
    /\ inbox > 0
    /\ \E other \in ChangingPages \ {document} : document' = other
    /\ UNCHANGED <<tables, seen, call, isHighlightingEnabled, analysisResults,
                   originalHTML, highlightOffsets, scrolledIntoView, batches, inbox>>

\* the script loaded in a page, MaxSessionMessages messages to come
InitPageChange ==
    /\ InitTables
    /\ InitContentScript
    /\ seen = <<>>
    /\ call = NoCall
    /\ document \in ChangingPages
    /\ inbox = MaxSessionMessages

SpecPageChange ==
    InitPageChange /\ [][OnAnalyze \/ OnGetStatus \/ OnGetCachedResults \/ PageChanges]_vars

-----------------------------------------------------------------------------
(* Properties.                                                             *)

Ran(fn) == call.fn = fn /\ call.state = "returned"

C2_LowConfidenceGate ==
    Ran("analyzeText") =>
        /\ call.ret.isLowConfidence <=> call.ret.wordCount < 100
        /\ call.ret.wordCount < 100 => call.ret.level = "Medium"

\* a text under 100 words whose grade alone would make it Hard
C2_Witness ==
    /\ Ran("analyzeText")
    /\ call.ret.wordCount < 100 /\ call.ret.wordCount > 0
    /\ call.ret.grade.kind = "number" /\ call.ret.grade.tenths >= 150
    /\ call.ret.isLowConfidence /\ call.ret.level = "Medium"

\* C5 as stated: for every string text the returned record has a level among
\* Easy, Medium, Hard and a grade that is a finite number >= 0.
C5_AsStated ==
    (Ran("analyzeText") /\ call.args[1].type = "string") =>
        /\ call.ret.level \in {"Easy", "Medium", "Hard"}
        /\ call.ret.grade.kind = "number" /\ call.ret.grade.tenths >= 0

\* a text with the word "constructor": the grade is NaN
C5_NaNGrade ==
    /\ Ran("analyzeText")
    /\ call.args[1] = String("The constructor is here. ")
    /\ call.ret.grade = NaN

\* C6: on an empty or white-space-only text with no paragraphs analyzeText
\* throws nothing and returns zeroed metrics: no words, no sentences, grade
\* 0, average sentence length 0, 0 minutes, low confidence, level Medium and
\* no issues.
C6_EmptyText ==
    (/\ call.fn = "analyzeText" /\ call.state # "pending"
     /\ call.args[1].type = "string"
     /\ \A i \in 1..Len(call.args[1].value) : CharAt(call.args[1].value, i) \in WhiteSpace
     /\ call.args[2] = <<>>) =>
        /\ call.state = "returned"
        /\ call.ret.wordCount = 0
        /\ call.ret.sentenceCount = 0
        /\ call.ret.grade = Number(0)
        /\ call.ret.avgSentenceLength = Number(0)
        /\ call.ret.readingTime.minutes = 0
        /\ call.ret.isLowConfidence
        /\ call.ret.level = "Medium"
        /\ call.ret.issues.complexSentences = <<>>
        /\ call.ret.issues.denseParagraphs = <<>>
        /\ call.ret.issueCount = 0

C6_Witness ==
    /\ Ran("analyzeText")
    /\ call.args = <<String(" \n\t \n\t"), <<>>>>
    /\ call.ret.wordCount = 0 /\ call.ret.grade = Number(0) /\ call.ret.level = "Medium"

\* C7 as stated: a call whose text is null or is not a string throws, and
\* returns no record.
C7_AsStated ==
    (call.fn = "analyzeText" /\ call.state # "pending" /\ call.args[1].type # "string") =>
        call.state = "thrown"

\* the call analyzeText(null, []) returns the record of an empty text
C7_NullAnalysed ==
    /\ Ran("analyzeText")
    /\ call.args = <<Value("null", "null"), <<>>>>
    /\ call.ret.wordCount = 0 /\ call.ret.level = "Medium" /\ call.ret.isLowConfidence

C3_GradeBands ==
    (Ran("classifyReadability") /\ call.args[4] >= 100 /\ call.args[3].kind = "number") =>
        LET t == call.args[3].tenths
            w == call.args[4]
        IN  /\ t <= 60 => call.ret = "Easy"
            /\ (60 < t /\ t <= 120) => call.ret = "Medium"
            /\ (t > 120 /\ w < 300 /\ t < 150) => call.ret = "Medium"
            /\ (t > 120 /\ (w >= 300 \/ t >= 150)) => call.ret = "Hard"

C3_Witness ==
    /\ Ran("classifyReadability")
    /\ call.args[4] = 299 /\ call.args[3] = Number(149) /\ call.ret = "Medium"

\* C4: calculateFleschKincaid gives 0 for zero words or sentences; otherwise
\* a non-negative number of tenths: 0 when the formula's value is below
\* -0.05, and else a tenth nearest to the formula's value (within 0.05 of
\* it); 150 words, 10 sentences, 220 syllables give 7.6.
C4_FleschKincaid ==
    Ran("calculateFleschKincaid") =>
        LET W == call.args[1]
            S == call.args[2]
            Y == call.args[3].v
            \* ten times the formula's value is n / d
            n == 39 * W * W + 1180 * Y * S - 1559 * S * W
            d == 10 * S * W
            r == call.ret.tenths
        IN  /\ call.ret.kind = "number"
            /\ r >= 0
            /\ (W = 0 \/ S = 0) => r = 0
            /\ (W > 0 /\ S > 0 /\ 2 * n < -d) => r = 0
            /\ (W > 0 /\ S > 0 /\ 2 * n >= -d) => (-d <= 2 * (r * d - n) /\ 2 * (r * d - n) <= d)
            /\ (W = 150 /\ S = 10 /\ Y = 220) => r = 76

C4_Witness ==
    /\ Ran("calculateFleschKincaid")
    /\ call.args = <<150, 10, [kind |-> "number", v |-> 220]>>
    /\ call.ret = Number(76)

\* the speed C8 names for a level
C8_NamedSpeed(level) ==
    CASE level = "Easy" -> 275
      [] level = "Medium" -> 250
      [] level = "Hard" -> 200
      [] OTHER -> 250

C8_SelectedSpeed(level) ==
    CASE toUpperCase(level) = "EASY" -> 275
      [] toUpperCase(level) = "MEDIUM" -> 250
      [] toUpperCase(level) = "HARD" -> 200
      [] OTHER -> 250

C9_SentenceQuality ==
    Ran("classifySentenceQuality") =>
        LET n == call.args[1].num
            d == call.args[1].den
            label == call.ret.label
        IN  /\ n < 8 * d => label = "Too Short"
            /\ (8 * d <= n /\ n <= 12 * d) => label = "Short"
            /\ (12 * d < n /\ n <= 18 * d) => label = "Optimal"
            /\ (18 * d < n /\ n <= 25 * d) => label = "Long"
            /\ 25 * d < n => label = "Too Long"
            /\ label \in {"Too Short", "Short", "Optimal", "Long", "Too Long"}

C9_Witness ==
    /\ Ran("classifySentenceQuality")
    /\ call.args[1] = Ratio(25, 1) /\ call.ret.label = "Long"


\* C11 as stated: identifyComplexSentences reports a sentence only if it has
\* more than THRESHOLDS.CLAUSE_DENSITY.COMPLEX (4) clauses.
C11_AsStated ==
    Ran("identifyComplexSentences") =>
        \A e \in 1..Len(call.ret) :
            call.ret[e].clauseCount > THRESHOLDS.CLAUSE_DENSITY.COMPLEX

\* a sentence of 3 or 4 clauses is reported
C11_FewClausesReported ==
    /\ Ran("identifyComplexSentences")
    /\ \E e \in 1..Len(call.ret) :
          /\ call.ret[e].clauseCount <= THRESHOLDS.CLAUSE_DENSITY.COMPLEX
          /\ call.ret[e].isComplex

\* C20 as stated: countSyllables returns an integer >= 1 for every word, the
\* tokens of extractWords included, and 1 for every word of length <= 2.
C20_AsStated ==
    Ran("countSyllables") =>
        /\ call.ret.kind = "number"
        /\ call.ret.v >= 1
        /\ Len(call.args[1]) <= 2 => call.ret.v = 1

\* for the token "constructor" of a text the result is a function
C20_FunctionReturned ==
    /\ Ran("countSyllables")
    /\ call.args[1] \in WordsOf("The constructor is here. ")
    /\ call.ret.kind = "function"

C13_AsStated ==
    Ran("identifyDenseParagraphs") =>
        \A e \in 1..Len(call.ret) : call.ret[e].wordCount > 100

\* a paragraph of 100 words or fewer is reported
C13_ShortParagraphReported ==
    /\ Ran("identifyDenseParagraphs")
    /\ \E e \in 1..Len(call.ret) : call.ret[e].wordCount <= 100 /\ call.ret[e].isDense

\* C14: every issue d of identifyDenseParagraphs has 0 <= d.index <
\* paragraphs.length, paragraphs[d.index] = d.text and d.isDense; the issues
\* are in strictly increasing order of index.
C14_DenseAddressing ==
    Ran("identifyDenseParagraphs") =>
        /\ \A e \in 1..Len(call.ret) :
              /\ 0 <= call.ret[e].index /\ call.ret[e].index < Len(call.args[1])
              /\ call.args[1][call.ret[e].index + 1] = call.ret[e].text
              /\ call.ret[e].isDense
        /\ \A e \in 1..(Len(call.ret) - 1) : call.ret[e].index < call.ret[e + 1].index

\* a list with the same dense paragraph at two places and another between them
C14_Witness ==
    /\ Ran("identifyDenseParagraphs")
    /\ Len(call.args[1]) = 3 /\ call.args[1][1] = call.args[1][3]
    /\ Len(call.ret) = 2
    /\ call.ret[1].index = 0 /\ call.ret[2].index = 2
    /\ call.ret[1].text = call.ret[2].text

\* the number of sentences extracted from the first n paragraphs
RECURSIVE SentencesIn(_, _)
SentencesIn(paragraphs, n) ==
    IF n = 0 THEN 0
    ELSE SentencesIn(paragraphs, n - 1) + Len(extractSentences(paragraphs[n]))

\* C15: every issue c of identifyComplexSentences has 0 <= c.paragraphIndex <
\* paragraphs.length, c.text is a sentence that extractSentences gives for
\* that paragraph, and c.index is the number of sentences extracted before
\* it, those of the preceding paragraphs and those before it in its own;
\* the issues are in strictly increasing index and non-decreasing
\* paragraphIndex.
C15_SentenceAddressing ==
    Ran("identifyComplexSentences") =>
        /\ \A e \in 1..Len(call.ret) :
              /\ 0 <= call.ret[e].paragraphIndex
              /\ call.ret[e].paragraphIndex < Len(call.args[1])
              /\ \E pSentences \in {extractSentences(call.args[1][call.ret[e].paragraphIndex + 1])} :
                    \E k \in 1..Len(pSentences) :
                       /\ pSentences[k] = call.ret[e].text
                       /\ call.ret[e].index
                             = SentencesIn(call.args[1], call.ret[e].paragraphIndex) + k - 1
        /\ \A e \in 1..(Len(call.ret) - 1) :
              /\ call.ret[e].index < call.ret[e + 1].index
              /\ call.ret[e].paragraphIndex <= call.ret[e + 1].paragraphIndex

\* three issues in three paragraphs, after sentences that are not reported
C15_Witness ==
    /\ Ran("identifyComplexSentences")
    /\ Len(call.args[1]) = 4
    /\ Len(call.ret) = 3
    /\ call.ret[1].paragraphIndex = 0 /\ call.ret[1].index = 2
    /\ call.ret[2].paragraphIndex = 1 /\ call.ret[2].index = 4
    /\ call.ret[3].paragraphIndex = 3 /\ call.ret[3].index = 6

\* C16: in every record analyzeText returns, sentenceCount is the length of
\* extractSentences(text) and wordCount the length of extractWords(text)
\* (both lists are empty for a text that is not a string), neither is
\* negative, and avgSentenceLength is wordCount / sentenceCount rounded to
\* one decimal (a nearest tenth), or 0 when sentenceCount is 0.
C16_Counts ==
    Ran("analyzeText") =>
        \A text \in {IF call.args[1].type = "string" THEN call.args[1].value ELSE ""} :
            /\ call.ret.sentenceCount = Len(extractSentences(text))
            /\ call.ret.wordCount = Len(extractWords(text))
            /\ call.ret.sentenceCount >= 0 /\ call.ret.wordCount >= 0
            /\ call.ret.avgSentenceLength.kind = "number"
            /\ call.ret.sentenceCount = 0 => call.ret.avgSentenceLength = Number(0)
            /\ call.ret.sentenceCount > 0 =>
                  \A difference \in {10 * call.ret.wordCount
                                     - call.ret.avgSentenceLength.tenths * call.ret.sentenceCount} :
                      /\ 2 * difference <= call.ret.sentenceCount
                      /\ -2 * difference <= call.ret.sentenceCount

\* a text of several sentences whose average is not a whole number of tenths
C16_Witness ==
    /\ Ran("analyzeText")
    /\ call.ret.sentenceCount > 1
    /\ call.ret.wordCount > call.ret.sentenceCount
    /\ 10 * call.ret.wordCount # call.ret.avgSentenceLength.tenths * call.ret.sentenceCount

\* C18: analyzeCurrentPage throws nothing.  When the full text of the page
\* has fewer than 50 characters it returns an error message with wordCount
\* 0, sentenceCount 0, avgSentenceLength 0 and both lists of issues empty,
\* and the engine has given no result (none is cached); when the extraction
\* throws, it returns an error object with the message of the exception;
\* otherwise it returns the engine's record, which has no error.
C18_AnalyzeCurrentPage ==
    (call.fn = "onMessage" /\ call.args[1].action = "analyze") =>
        /\ call.state = "returned"
        /\ \A content \in {extractPageContent(document)} :
              /\ content.state = "thrown" =>
                    /\ call.ret.error = "Analysis failed. Please try again."
                    /\ call.ret.details = content.ret
                    /\ analysisResults = null
              /\ (content.state = "returned" /\ Len(content.ret.fullText) < 50) =>
                    /\ "error" \in DOMAIN call.ret
                    /\ call.ret.wordCount = 0
                    /\ call.ret.sentenceCount = 0
                    /\ call.ret.avgSentenceLength = 0
                    /\ call.ret.issues.complexSentences = <<>>
                    /\ call.ret.issues.denseParagraphs = <<>>
                    /\ analysisResults = null
              /\ (content.state = "returned" /\ Len(content.ret.fullText) >= 50) =>
                    /\ "error" \notin DOMAIN call.ret
                    /\ call.ret.wordCount = Len(extractWords(content.ret.fullText))
                    /\ analysisResults # null

\* a page whose full text has 49 characters
C18_Witness ==
    /\ call.fn = "onMessage" /\ call.args[1].action = "analyze"
    /\ document.contentArea
    /\ Len(extractPageContent(document).ret.fullText) = 49
    /\ call.ret.error = "Not enough text content to analyze"
    /\ call.ret.wordCount = 0
    /\ analysisResults = null

\* the first n of the paragraphs, with a single space between two of them
RECURSIVE JoinedBySpaces(_, _)
JoinedBySpaces(paragraphs, n) ==
    IF n = 0 THEN ""
    ELSE IF n = 1 THEN paragraphs[1]
    ELSE JoinedBySpaces(paragraphs, n - 1) \o " " \o paragraphs[n]

\* paragraphs and elements have the same length, and paragraphs[i] is the
\* trimmed text of elements[i]
ParagraphsOfElements(paragraphs, elements) ==
    /\ Len(paragraphs) = Len(elements)
    /\ \A i \in 1..Len(elements) :
          /\ elements[i] \in 1..Len(document.textElements)
          /\ paragraphs[i] = trim(document.textElements[elements[i]].textContent)

\* the elements of the page that have the class
WithClass(class) ==
    {i \in 1..Len(document.textElements) : class \in document.textElements[i].classList}

\* C17: extractPageContent returns paragraphs and elements of equal length,
\* paragraphs[i] being the trimmed text of elements[i], and fullText the
\* paragraphs joined by single spaces.  So with cached results: the text of
\* a dense issue is the trimmed text of elements[issue.index], a complex
\* sentence is a sentence of the trimmed text of
\* elements[issue.paragraphIndex]; the elements highlighted are elements
\* that the issues address in this way, all of them after
\* toggleHighlight(true); and scrollToIssue scrolls to the element that the
\* issue of the given index addresses.
C17_ElementsOfIssues ==
    /\ (call.fn = "extractPageContent" /\ call.state = "returned") =>
          /\ ParagraphsOfElements(call.ret.paragraphs, call.ret.elements)
          /\ call.ret.fullText = JoinedBySpaces(call.ret.paragraphs, Len(call.ret.paragraphs))
    /\ analysisResults # null =>
          \A dense \in {analysisResults.issues.denseParagraphs},
             complex \in {analysisResults.issues.complexSentences},
             elements \in {analysisResults.elements} :
             /\ ParagraphsOfElements(analysisResults.paragraphs, elements)
             /\ \A d \in 1..Len(dense) :
                   /\ dense[d].index \in 0..(Len(elements) - 1)
                   /\ dense[d].text
                         = trim(document.textElements[elements[dense[d].index + 1]].textContent)
             /\ \A c \in 1..Len(complex) :
                   /\ complex[c].paragraphIndex \in 0..(Len(elements) - 1)
                   /\ \E sentences \in {extractSentences(trim(
                            document.textElements[elements[complex[c].paragraphIndex + 1]]
                                .textContent))} :
                         \E k \in 1..Len(sentences) : sentences[k] = complex[c].text
             /\ WithClass("readscore-dense-paragraph")
                   \subseteq {elements[dense[d].index + 1] : d \in 1..Len(dense)}
             /\ WithClass("readscore-complex-sentence")
                   \subseteq {elements[complex[c].paragraphIndex + 1] : c \in 1..Len(complex)}
             /\ (/\ call.fn = "onMessage" /\ call.args[1].action = "toggleHighlight"
                 /\ call.args[1].enabled) =>
                   /\ WithClass("readscore-dense-paragraph")
                         = {elements[dense[d].index + 1] : d \in 1..Len(dense)}
                   /\ WithClass("readscore-complex-sentence")
                         = {elements[complex[c].paragraphIndex + 1] : c \in 1..Len(complex)}
             /\ (call.fn = "onMessage" /\ call.args[1].action = "scrollToIssue") =>
                   \A issueIndex \in {call.args[1].issueIndex} :
                      /\ (/\ call.args[1].issueType = "denseParagraph"
                          /\ issueIndex < Len(dense)) =>
                            scrolledIntoView = elements[dense[issueIndex + 1].index + 1]
                      /\ (/\ call.args[1].issueType = "complexSentence"
                          /\ issueIndex < Len(complex)) =>
                            scrolledIntoView
                               = elements[complex[issueIndex + 1].paragraphIndex + 1]
    /\ analysisResults = null =>
          /\ WithClass("readscore-dense-paragraph") = {}
          /\ WithClass("readscore-complex-sentence") = {}
          /\ scrolledIntoView = 0

\* on a page whose first and third text elements are left out, the dense
\* paragraph (paragraph 2, element 5) and the paragraphs of the complex
\* sentences (elements 4 and 6) are highlighted
C17_Witness ==
    /\ call.fn = "onMessage" /\ call.args[1].action = "toggleHighlight" /\ call.args[1].enabled
    /\ analysisResults # null
    /\ analysisResults.elements = <<2, 4, 5, 6>>
    /\ Len(analysisResults.issues.denseParagraphs) = 1
    /\ analysisResults.issues.denseParagraphs[1].index = 2
    /\ WithClass("readscore-dense-paragraph") = {5}
    /\ WithClass("readscore-complex-sentence") = {4, 6}

\* the slices highlightBatch took from the list of the given type since the
\* offsets were last reset, in order
BatchesOf(type) == SelectSeq(batches, LAMBDA b : b.type = type)

\* C19: after toggleHighlight(true) on cached results (and from any reset of
\* the offsets), the k-th batch of a type (k = 0, 1, ...) is the slice of
\* the issues from 50k to min(50(k+1), total), empty once 50k >= total, so
\* that the batches follow one another without gap or overlap and the
\* elements of the issues below the offset are highlighted; every
\* response to loadMoreHighlights for a type of issue has nextOffset <=
\* total and hasMore = (nextOffset < total), and hasMore is false from the
\* batch number ceil(total/50) on.
C19_Batches ==
    \A type \in {"complexSentences", "denseParagraphs"} :
       \A total \in {Len(analysisResults.issues[type])}, taken \in {BatchesOf(type)} :
          /\ \A k \in 1..Len(taken) :
                /\ taken[k].startIndex = Min(HIGHLIGHT_BATCH_SIZE * (k - 1), total)
                /\ taken[k].endIndex = Min(HIGHLIGHT_BATCH_SIZE * k, total)
          /\ Len(taken) > 0 => highlightOffsets[type] = taken[Len(taken)].endIndex
          /\ {IssueElement(analysisResults, type, analysisResults.issues[type][i]) :
                 i \in 1..highlightOffsets[type]}
                \subseteq WithClass(IF type = "denseParagraphs" THEN "readscore-dense-paragraph"
                                    ELSE "readscore-complex-sentence")
          /\ (/\ call.fn = "onMessage" /\ call.args[1].action = "loadMoreHighlights"
              /\ call.args[1].type = type) =>
                /\ call.ret.total = total
                /\ call.ret.nextOffset <= total
                /\ call.ret.nextOffset = Min(HIGHLIGHT_BATCH_SIZE * Len(taken), total)
                /\ call.ret.hasMore <=> call.ret.nextOffset < total
                /\ Len(taken) * HIGHLIGHT_BATCH_SIZE >= total => ~call.ret.hasMore

\* the third and the fourth batch of a list of more than 100 issues: the
\* third ends the list, the fourth is empty
C19_Witness ==
    /\ call.fn = "onMessage" /\ call.args[1].action = "loadMoreHighlights"
    /\ call.args[1].type = "denseParagraphs"
    /\ Len(analysisResults.issues.denseParagraphs) > 2 * HIGHLIGHT_BATCH_SIZE
    /\ Len(BatchesOf("denseParagraphs")) = 4
    /\ BatchesOf("denseParagraphs")[3].startIndex = 2 * HIGHLIGHT_BATCH_SIZE
    /\ BatchesOf("denseParagraphs")[3].endIndex = Len(analysisResults.issues.denseParagraphs)
    /\ BatchesOf("denseParagraphs")[4].startIndex = BatchesOf("denseParagraphs")[4].endIndex
    /\ ~call.ret.hasMore
    /\ isHighlightingEnabled

\* C21 as stated: every token extractWords returns is lower-case, has at
\* least 2 characters, starts with a letter, is at least half letters and is
\* made of letters and apostrophes only (no digit, underscore or hyphen is
\* left in it); an empty or white-space text gives no token.
C21_AsStated ==
    Ran("extractWords") =>
        /\ \A k \in 1..Len(call.ret) :
              /\ call.ret[k] = toLowerCase(call.ret[k])
              /\ Len(call.ret[k]) >= 2
              /\ CharAt(call.ret[k], 1) \in Letters
              /\ 2 * LetterCount(call.ret[k]) >= Len(call.ret[k])
              /\ \A i \in 1..Len(call.ret[k]) :
                    CharAt(call.ret[k], i) \in Letters \cup {"'"}
        /\ call.args[1] \in BlankTexts => call.ret = <<>>

\* a token that keeps digits, one that keeps an underscore and one that
\* keeps its hyphens are returned
C21_OtherCharactersKept ==
    /\ Ran("extractWords")
    /\ call.args[1] \in {"abc123", "snake_case", "rock-'n'-roll"}
    /\ call.ret = <<call.args[1]>>

(* The segmentation C22 describes, on the text with its white space        *)
(* normalised.  A period is protected when it stands between two digits,   *)
(* inside a currency amount, in a run of 2 or more periods, after a listed *)
(* abbreviation (a word of its own) with white space or the end after it,  *)
(* or after a numbered-list marker (digits at the start or after white     *)
(* space, with white space after the period).                              *)
RECURSIVE RunStart(_, _, _)
RunStart(n, i, chars) ==
    IF i >= 1 /\ CharAt(n, i) \in chars THEN RunStart(n, i - 1, chars) ELSE i + 1

InDecimal(n, i) == CharAt(n, i - 1) \in Digits /\ CharAt(n, i + 1) \in Digits

InCurrency(n, i) ==
    LET start == RunStart(n, i - 1, Digits \cup {",", "."})
    IN  /\ CharAt(n, start - 1) = "$"
        /\ CharAt(n, i + 1) \in Digits \cup {",", "."}

InPeriodRun(n, i) == CharAt(n, i - 1) = "." \/ CharAt(n, i + 1) = "."

AfterAbbreviation(n, i) ==
    LET start == RunStart(n, i - 1, Letters)
    IN  /\ start < i
        /\ CharAt(n, start - 1) \notin WordChars
        /\ toLowerCase(SubSeq(n, start, i - 1)) \in ABBREVIATIONS
        /\ (i = Len(n) \/ CharAt(n, i + 1) \in WhiteSpace)

AfterListMarker(n, i) ==
    LET start == RunStart(n, i - 1, Digits)
    IN  /\ start < i
        /\ (start = 1 \/ CharAt(n, start - 1) \in WhiteSpace)
        /\ CharAt(n, i + 1) \in WhiteSpace

ProtectedPeriod(n, i) ==
    /\ CharAt(n, i) = "."
    /\ \/ InDecimal(n, i)
       \/ InCurrency(n, i)
       \/ InPeriodRun(n, i)
       \/ AfterAbbreviation(n, i)
       \/ AfterListMarker(n, i)

\* a terminal mark followed by white space and a capital, quote or opening bracket
TerminalAt(n, i) ==
    /\ CharAt(n, i) \in {".", "!", "?"}
    /\ CharAt(n, i + 1) \in WhiteSpace
    /\ CharAt(n, i + 2) \in Upper \cup {"\"", "'", "(", "[", "{"}

RECURSIVE PiecesFrom(_, _, _)
PiecesFrom(n, start, cuts) ==
    LET ahead == {c \in cuts : c >= start}
    IN  IF ahead = {} THEN <<SubSeq(n, start, Len(n))>>
        ELSE LET c == CHOOSE x \in ahead : \A y \in ahead : x <= y
             IN  <<SubSeq(n, start, c)>> \o PiecesFrom(n, c + 2, cuts)

\* the tokens (runs without white space) of s that contain a letter
LetterTokens(s) ==
    {i \in 1..Len(s) :
        /\ CharAt(s, i) \notin WhiteSpace
        /\ (i = 1 \/ CharAt(s, i - 1) \in WhiteSpace)
        /\ \E j \in i..Len(s) :
              /\ CharAt(s, j) \in Letters
              /\ \A k \in i..j : CharAt(s, k) \notin WhiteSpace}

Qualifies(s) == Len(s) > 5 /\ Cardinality(LetterTokens(s)) >= 3

SentencesAsDescribed(text) ==
    Bind(trim(ReplaceAll("whitespace", text)), LAMBDA n :
        SelectSeq(PiecesFrom(n, 1, {i \in 1..Len(n) : TerminalAt(n, i) /\ ~ProtectedPeriod(n, i)}),
                  Qualifies))

\* texts whose sentences come back as they stand in the text: no link, no
\* address, no run of periods other than "..."
Verbatim(text) ==
    /\ \A i \in 1..Len(text) : ~LiteralAt(text, i, "http") /\ CharAt(text, i) # "@"
    /\ \A i \in 1..Len(text) :
          (CharAt(text, i) = "." /\ CharAt(text, i - 1) # ".") =>
              RunEnd(text, i, {"."}) - i \in {1, 3}

\* C22 as stated: extractSentences never splits at a protected period and
\* splits at every other terminal mark followed by white space and a
\* capital letter, quote or opening bracket, so that it returns the pieces
\* between these marks that have more than 5 characters and at least 3
\* tokens with a letter; it returns exactly one sentence for "Dr. Smith went
\* to Washington, D.C. on Monday." and exactly two for "I paid $19.99 for
\* the item. It was cheap.".
C22_AsStated ==
    Ran("extractSentences") =>
        /\ \A k \in 1..Len(call.ret) : Qualifies(call.ret[k])
        /\ call.args[1] = DrSmith => Len(call.ret) = 1
        /\ call.args[1] = Paid1999 => Len(call.ret) = 2
        /\ Len(call.ret) = Len(SentencesAsDescribed(call.args[1]))
        /\ Verbatim(call.args[1]) => call.ret = SentencesAsDescribed(call.args[1])

\* the terminal period after a price, followed by a capital, is not split at
C22_NoSplitAfterPrice ==
    /\ Ran("extractSentences")
    /\ call.args[1] = "It did cost $5. Then we go on."
    /\ call.ret = <<"It did cost $5. Then we go on.">>

(* The count C23 describes, for a word in lower case of more than 2        *)
(* characters; a part of at most 2 characters of a hyphenated word counts  *)
(* as countSyllables has it (1, and 0 for an empty part).                  *)
RECURSIVE VowelGroupsFrom(_, _, _)
VowelGroupsFrom(w, i, inGroup) ==
    IF i > Len(w) THEN 0
    ELSE LET vowel == \/ CharAt(w, i) \in {"a", "e", "i", "o", "u"}
                      \/ CharAt(w, i) = "y" /\ i # 1
         IN  (IF vowel /\ ~inGroup THEN 1 ELSE 0) + VowelGroupsFrom(w, i + 1, vowel)

Ending(w, k) == SubSeq(w, Max(1, Len(w) - k + 1), Len(w))

LessOne(n) == IF n - 1 < 1 THEN 1 ELSE n - 1

AfterSilentE(w, n) ==
    IF Ending(w, 1) = "e" /\ Ending(w, 2) \notin {"le", "ee", "ie"} THEN LessOne(n) ELSE n

AfterEd(w, n) ==
    IF Ending(w, 2) = "ed" /\ CharAt(w, Len(w) - 2) \notin {"t", "d"} THEN LessOne(n) ELSE n

AfterEs(w, n) ==
    IF /\ Ending(w, 2) = "es"
       /\ CharAt(w, Len(w) - 2) \notin {"s", "x", "z", "h"}
       /\ Ending(w, 4) \notin {"ches", "shes"}
    THEN LessOne(n) ELSE n

RECURSIVE SyllablesAsDescribed(_)
RECURSIVE PartsAsDescribed(_, _)
PartsAsDescribed(w, start) ==
    LET hyphens == {i \in start..Len(w) : CharAt(w, i) = "-"}
        stop == IF hyphens = {} THEN Len(w) + 1
                ELSE CHOOSE i \in hyphens : \A j \in hyphens : i <= j
        part == SubSeq(w, start, stop - 1)
        count == IF Len(part) > 2 THEN SyllablesAsDescribed(part)
                 ELSE IF part = "" THEN 0 ELSE 1
    IN  IF hyphens = {} THEN count ELSE count + PartsAsDescribed(w, stop + 1)

SyllablesAsDescribed(w) ==
    IF w \in DOMAIN SYLLABLE_OVERRIDES THEN SYLLABLE_OVERRIDES[w]
    ELSE IF \E i \in 1..Len(w) : CharAt(w, i) = "-" THEN PartsAsDescribed(w, 1)
    ELSE Max(1, AfterEs(w, AfterEd(w, AfterSilentE(w, VowelGroupsFrom(w, 1, FALSE)))))

\* C23 as stated: for every word of more than 2 characters countSyllables
\* is the listed value of the exception table if the lower-cased word is
\* listed, otherwise for a hyphenated word the sum over its parts, otherwise
\* the number of vowel groups (a, e, i, o, u, and y when not first), less
\* one for a final e not in -le, -ee, -ie, less one for a final -ed not after
\* t or d, less one for a final -es not after s, x, z, h and not in -ches,
\* -shes, each time not below 1.
C23_AsStated ==
    (Ran("countSyllables") /\ Len(trim(toLowerCase(call.args[1]))) > 2) =>
        call.ret = Integer(SyllablesAsDescribed(trim(toLowerCase(call.args[1]))))

\* for "constructor", of three vowel groups, the result is not the count 3
C23_ConstructorNotCounted ==
    /\ Ran("countSyllables")
    /\ call.args[1] = "constructor"
    /\ SyllablesAsDescribed(call.args[1]) = 3
    /\ call.ret # Integer(3)

(* The count C24 describes, on the words of the sentence (the runs of      *)
(* letters, digits and underscores).                                       *)
WordStartsAt(s, i) == CharAt(s, i) \in WordChars /\ CharAt(s, i - 1) \notin WordChars

WordAt(s, i) == toLowerCase(SubSeq(s, i, RunEnd(s, i, WordChars) - 1))

\* the word at i stands directly after a comma or semicolon and white space
AfterCommaOrSemicolon(s, i) ==
    LET blank == RunStart(s, i - 1, WhiteSpace)
    IN  blank < i /\ CharAt(s, blank - 1) \in {",", ";"}

ListedConnectives == {connectingWords[k] : k \in 1..Len(connectingWords)}

CountedConnectives(s) ==
    {i \in 1..Len(s) :
        /\ WordStartsAt(s, i)
        /\ WordAt(s, i) \in ListedConnectives
        /\ (i = 1 \/ AfterCommaOrSemicolon(s, i))}

CountedThats(s) ==
    {i \in 1..Len(s) :
        /\ WordStartsAt(s, i)
        /\ WordAt(s, i) = "that"
        /\ ~(i > 3 /\ CharAt(s, i - 1) \in WhiteSpace /\ toLowerCase(SubSeq(s, i - 3, i - 2)) = "so")
        /\ ~(i > 5 /\ CharAt(s, i - 1) \in WhiteSpace /\ toLowerCase(SubSeq(s, i - 5, i - 2)) = "such")}

C25_AsStated ==
    /\ isHighlightingEnabled => analysisResults # null
    /\ (/\ call.fn = "onMessage"
        /\ call.args[1].action \in {"getStatus", "getCachedResults"}
        /\ call.ret.isHighlighting) => call.ret.hasResults

\* getStatus answers isHighlighting true and hasResults false
C25_HighlightingWithoutResults ==
    /\ call.fn = "onMessage"
    /\ call.args[1].action = "getStatus"
    /\ call.ret = [hasResults |-> FALSE, isHighlighting |-> TRUE]
    /\ isHighlightingEnabled /\ analysisResults = null

\* the message handled by the step just taken
Handled(action) == call.fn = "onMessage" /\ call.args[1].action = action

HandledToggle(enabled) == Handled("toggleHighlight") /\ call.args[1].enabled = enabled

\* C26: when a toggleHighlight message with enabled = false has been handled,
\* from whatever state, isHighlightingEnabled is false, both offsets are 0,
\* originalHTML is empty, no element of the document has the class
\* readscore-complex-sentence or readscore-dense-paragraph, and
\* analysisResults is what it was before the message.
C26_ToggleOff ==
    [][HandledToggle(FALSE)' =>
          /\ isHighlightingEnabled' = FALSE
          /\ highlightOffsets' = [complexSentences |-> 0, denseParagraphs |-> 0]
          /\ originalHTML' = {}
          /\ \A i \in 1..Len(document'.textElements) :
                document'.textElements[i].classList
                    \cap {"readscore-complex-sentence", "readscore-dense-paragraph"} = {}
          /\ analysisResults' = analysisResults]_vars

\* highlighting has been switched off by the fourth message, on results
\* with more than 50 issues of each kind
C26_Witness ==
    /\ HandledToggle(FALSE)
    /\ inbox = MaxBatchMessages - 4
    /\ Len(analysisResults.issues.complexSentences) > HIGHLIGHT_BATCH_SIZE
    /\ Len(analysisResults.issues.denseParagraphs) > HIGHLIGHT_BATCH_SIZE
    /\ ~isHighlightingEnabled
    /\ originalHTML = {}

\* the elements that have a class after the step that they had not before it
GainedClasses ==
    {i \in 1..Len(document'.textElements) :
        ~(document'.textElements[i].classList \subseteq document.textElements[i].classList)}

\* C27 as stated, for the message that follows a toggleHighlight with
\* enabled = false: unless that message is a toggleHighlight with enabled =
\* true, isHighlightingEnabled is still false after it and no element has
\* gained a highlight class.
C27_AsStated ==
    [][(HandledToggle(FALSE) /\ ~HandledToggle(TRUE)') =>
          /\ isHighlightingEnabled' = FALSE
          /\ GainedClasses = {}]_vars

\* loadMoreHighlights alone has switched highlighting on: one batch from
\* offset 0 has been highlighted since highlighting was last off
C27_EnabledByLoadMore ==
    /\ Handled("loadMoreHighlights")
    /\ isHighlightingEnabled
    /\ Len(batches) = 1
    /\ batches[1].startIndex = 0 /\ batches[1].endIndex > 0
    /\ \E i \in 1..Len(document.textElements) : document.textElements[i].classList # {}

HighlightClass(type) ==
    IF type = "denseParagraphs" THEN "readscore-dense-paragraph"
    ELSE "readscore-complex-sentence"

\* the elements of the first n issues of a type in the current results
ElementsOfFirst(type, n) ==
    {IssueElement(analysisResults, type, analysisResults.issues[type][i]) : i \in 1..n} \ {0}

\* C28 as stated: whenever analysisResults is set, for each type of issue
\* the offset is at most the number of issues of the type, and the elements
\* that have the type's highlight class are exactly the elements of the
\* first highlightOffsets[type] issues of the current results.
C28_AsStated ==
    analysisResults # null =>
        \A type \in {"complexSentences", "denseParagraphs"} :
            /\ highlightOffsets[type] <= Len(analysisResults.issues[type])
            /\ WithClass(HighlightClass(type)) = ElementsOfFirst(type, highlightOffsets[type])

\* the offset of the complex sentences is back at 50 while the elements of
\* more than 50 issues are highlighted
C28_MoreHighlightedThanOffset ==
    /\ analysisResults # null
    /\ highlightOffsets.complexSentences = HIGHLIGHT_BATCH_SIZE
    /\ Cardinality(WithClass("readscore-complex-sentence")) > HIGHLIGHT_BATCH_SIZE
    /\ ElementsOfFirst("complexSentences", HIGHLIGHT_BATCH_SIZE)
           # WithClass("readscore-complex-sentence")

\* the response to an analyze message is an error result
ErrorResult(response) == "error" \in DOMAIN response

\* C29 as stated, for a getCachedResults or getStatus message that follows
\* an analyze message: if the analyze returned results, hasResults is true
\* and the cached results are that response; if it returned an error result
\* (too little text, or a failure), hasResults is false.
C29_AsStated ==
    [][(Handled("analyze") /\ (Handled("getCachedResults") \/ Handled("getStatus"))') =>
          IF ErrorResult(call.ret)
          THEN call'.ret.hasResults = FALSE
          ELSE /\ call'.ret.hasResults = TRUE
               /\ Handled("getCachedResults")' => call'.ret.results = call.ret]_vars

\* the latest analyze has returned an error result and the results of an
\* earlier analysis are still cached
C29_EarlierResultsKept ==
    /\ Handled("analyze")
    /\ ErrorResult(call.ret)
    /\ analysisResults # null
    /\ analysisResults.wordCount > 0

\* C30 as stated: in every record analyzeText returns, sentenceQuality is
\* what classifySentenceQuality gives for the avgSentenceLength of the same
\* record (the average with one decimal).
C30_AsStated ==
    Ran("analyzeText") =>
        call.ret.sentenceQuality
            = classifySentenceQuality(Ratio(call.ret.avgSentenceLength.tenths, 10))

\* 167 words in 21 sentences: the average is reported as 8.0 and labelled
\* "Too Short", the label of the averages below 8
C30_EightLabelledTooShort ==
    /\ Ran("analyzeText")
    /\ call.ret.wordCount = 167 /\ call.ret.sentenceCount = 21
    /\ call.ret.avgSentenceLength = Number(80)
    /\ call.ret.sentenceQuality.label = "Too Short"
    /\ classifySentenceQuality(Ratio(8, 1)).label = "Short"

=============================================================================
